---------------------------- MODULE Spec2Model ----------------------------
(***************************************************************************)
(* The synchronization pipeline of cobbler (cobbler/action_sync.py,        *)
(* class BootSync): one `cobbler sync` builds a BootSync object and calls  *)
(* run(), which turns the object store (distros, profiles, systems,        *)
(* settings) into the TFTP tree, the web-served tree and the DHCP files.   *)
(*                                                                         *)
(* The filesystem is a function from paths (tuples of names) to contents   *)
(* (tuples of strings; <<"dir">> is a directory).  Every phase of run() is *)
(* one action; a loop of the code is a recursive operator over the         *)
(* collection in the order the store yields it, so that the partial        *)
(* effects of a phase that raises are part of the state.                   *)
(*                                                                         *)
(* A second specification, RenderSpec, follows one apply_template call     *)
(* pass by pass over texts made of tokens.                                 *)
(***************************************************************************)
EXTENDS Integers, Sequences, FiniteSets, TLC

VARIABLES
    store,          \* the persisted object store (what deserialize reads)
    config,         \* the collections held by the config object in memory
    env,            \* the input files outside the generated trees
    fs,             \* the filesystem: path -> content
    objs,           \* self.distros/profiles/systems/settings of the BootSync
    blend_cache,    \* self.blend_cache
    snippet_cache,  \* self.snippet_cache
    pc,             \* the next phase of run() ("idle" between runs)
    log,            \* the phases started in the current run, in order
    err,            \* the exception that ended the run, <<>> when none
    runs,           \* number of runs started so far
    fs0,            \* history: the filesystem when the current run was called
    captured,       \* history: the collections captured by __init__
    lastDone,       \* history: the run that completed last
    prevDone,       \* history: the completed run before it
    tpl             \* the apply_template call followed pass by pass

vars == <<store, config, env, fs, objs, blend_cache, snippet_cache, pc, log,
          err, runs, fs0, captured, lastDone, prevDone, tpl>>

---------------------------------------------------------------------------
(* Bounds of the model. *)

\* number of sync runs in one behaviour
MaxRuns == 2
\* number of systems in the object store
MaxSystems == 2

---------------------------------------------------------------------------
(* Paths and contents. *)

NoErr == <<>>
DirMark == <<"dir">>

webdir == <<"web">>
tftpboot == <<"tftp">>

Join(p, name) == Append(p, name)

Basename(p) == p[Len(p)]

Dirname(p) == SubSeq(p, 1, Len(p) - 1)

IsPrefix(p, q) == Len(p) <= Len(q) /\ SubSeq(q, 1, Len(p)) = p

Exists(f, p) == p \in DOMAIN f

IsDir(f, p) == p \in DOMAIN f /\ f[p] = DirMark

IsFile(f, p) == p \in DOMAIN f /\ f[p] # DirMark

Restrict(f, S) == [p \in S |-> f[p]]

\* os.listdir: the names directly under a directory, hidden ones included
Children(f, p) == {q \in DOMAIN f : Len(q) = Len(p) + 1 /\ IsPrefix(p, q)}

\* names that begin with a dot: glob's "*" does not match them
HiddenNames == {".keep"}

\* names that end with ".py"
PyNames == {"watcher.py"}

endswith_py(name) == name \in PyNames

\* glob.glob("%s/*" % path)
glob_star(f, p) == {q \in Children(f, p) : Basename(q) \notin HiddenNames}

\* os.unlink, ENOENT tolerated
rmfile(f, p) == Restrict(f, DOMAIN f \ {p})

\* a file is unlinked; a directory goes with everything below it (shutil.rmtree)
rmtree(f, p) ==
    IF IsFile(f, p) THEN rmfile(f, p)
    ELSE Restrict(f, {q \in DOMAIN f : ~IsPrefix(p, q)})

\* every glob match under path is removed; path itself stays
rmtree_contents(f, p) ==
    LET gone == glob_star(f, p)
    IN  Restrict(f, {q \in DOMAIN f : \A g \in gone : ~IsPrefix(g, q)})

Ancestors(p) == {SubSeq(p, 1, n) : n \in 1..Len(p)}

\* os.makedirs, "already exists" tolerated
mkdir(f, p) ==
    [q \in DOMAIN f \cup Ancestors(p) |-> IF q \in DOMAIN f THEN f[q] ELSE DirMark]

\* open(path, "w") + write + close: the content is replaced as a whole
WriteFile(f, p, c) == [q \in DOMAIN f \cup {p} |-> IF q = p THEN c ELSE f[q]]

\* open() for writing needs the parent directory
CanWrite(f, p) == IsDir(f, Dirname(p)) /\ ~IsDir(f, p)


---------------------------------------------------------------------------
(* The object store: distros, profiles, systems, settings. *)

\* a mapping with string keys and string values (a Python dict)
EmptyMap == <<>>

\* a slip: the keys already present are kept
MergeKeepsFirst(m1, m2) ==
    [k \in DOMAIN m1 \cup DOMAIN m2 |-> IF k \in DOMAIN m1 THEN m1[k] ELSE m2[k]]

\* dict.update: the keys of m2 win
Merge(m1, m2) ==
    [k \in DOMAIN m1 \cup DOMAIN m2 |-> IF k \in DOMAIN m2 THEN m2[k] ELSE m1[k]]

Archs == {"x86", "ia64", "ppc"}

Distro(arch) ==
    [name |-> "d1", arch |-> arch, breed |-> "redhat",
     kernel |-> <<"src", "vmlinuz">>, initrd |-> <<"src", "initrd.img">>,
     kernel_options |-> ("ksdevice" :> "eth0"), ks_meta |-> EmptyMap]

\* a second distro, which no profile installs
Distro2(arch) == [Distro(arch) EXCEPT !.name = "d2"]

LocalKickstart == "/ks/sample.ks"

Profile1 ==
    [name |-> "p1", distro |-> "d1", kickstart |-> LocalKickstart,
     kernel_options |-> ("text" :> "1"), ks_meta |-> ("tree" :> "http://srv/t"),
     repos |-> <<"r2", "r1">>]

Profile2 ==
    [name |-> "p2", distro |-> "d1", kickstart |-> "",
     kernel_options |-> EmptyMap, ks_meta |-> EmptyMap, repos |-> <<>>]

Interface(mac, ip, host, tag) ==
    [mac_address |-> mac, ip_address |-> ip, hostname |-> host, dhcp_tag |-> tag]

\* the interfaces of a system in the order iteritems() yields them
IfaceOrder == <<"intf0", "intf1">>

\* item_system.System: a name, the name of its profile, overrides
System1 ==
    [name |-> "s1", profile |-> "p1", netboot_enabled |-> TRUE,
     interfaces |-> ("intf0" :> Interface("aa:01", "10.0.0.1", "h1", "")
                  @@ "intf1" :> Interface("", "10.0.0.9", "h9", "")),
     kernel_options |-> ("text" :> "0"), ks_meta |-> EmptyMap]

System2 ==
    [name |-> "s2", profile |-> "p2", netboot_enabled |-> FALSE,
     interfaces |-> ("intf0" :> Interface("bb:02", "", "", "lab")),
     kernel_options |-> EmptyMap, ks_meta |-> EmptyMap]

\* a system whose profile name matches no profile
System3 ==
    [name |-> "s3", profile |-> "px", netboot_enabled |-> TRUE,
     interfaces |-> ("intf0" :> Interface("cc:03", "10.0.0.3", "h3", "")),
     kernel_options |-> EmptyMap, ks_meta |-> EmptyMap]

\* the system that stands for every machine no other system describes
SystemDefault ==
    [name |-> "default", profile |-> "p2", netboot_enabled |-> TRUE,
     interfaces |-> ("intf0" :> Interface("dd:04", "10.0.0.4", "", "")),
     kernel_options |-> EmptyMap, ks_meta |-> EmptyMap]

SystemCatalog == {System1, System2, System3, SystemDefault}

Range(s) == {s[i] : i \in DOMAIN s}

\* the orders in which a store can hold up to MaxSystems distinct systems
SystemLists ==
    {s \in UNION {[1..n -> SystemCatalog] : n \in 0..MaxSystems} :
        \A i, j \in DOMAIN s : i # j => s[i] # s[j]}

ProfileLists == {<<Profile1>>, <<Profile2, Profile1>>}

Settings(dhcp) ==
    [manage_dhcp |-> dhcp, manage_dhcp_mode |-> "isc", server |-> "srv",
     pxe_just_once |-> "0", run_post_install_trigger |-> FALSE]

ObjectSet(arch, profiles, systems, dhcp) ==
    [distros |-> <<Distro(arch), Distro2(arch)>>, profiles |-> profiles, systems |-> systems,
     settings |-> Settings(dhcp)]

\* the sequence without its i-th element
RemoveAt(s, i) == SubSeq(s, 1, i - 1) \o SubSeq(s, i + 1, Len(s))

\* collection.find(name): the matches, in order
find(coll, name) == SelectSeq(coll, LAMBDA x : x.name = name)

\* system.get_conceptual_parent() is not None
HasProfile(o, s) == find(o.profiles, s.profile) # <<>>

ProfileOf(o, s) == Head(find(o.profiles, s.profile))

\* profile.get_conceptual_parent() is not None
HasDistro(o, p) == find(o.distros, p.distro) # <<>>

DistroOf(o, p) == Head(find(o.distros, p.distro))

---------------------------------------------------------------------------
(* String tables: the model has no string concatenation. *)

\* "01-" + "-".join(mac.split(":")).lower()
MacFile(mac) ==
    CASE mac = "aa:01" -> "01-aa-01"
      [] mac = "bb:02" -> "01-bb-02"
      [] mac = "cc:03" -> "01-cc-03"
      [] mac = "dd:04" -> "01-dd-04"
      [] OTHER -> "01-"

\* "%s.conf" % name
ConfName(n) ==
    CASE n = "01-aa-01" -> "01-aa-01.conf"
      [] n = "01-bb-02" -> "01-bb-02.conf"
      [] n = "01-cc-03" -> "01-cc-03.conf"
      [] n = "01-dd-04" -> "01-dd-04.conf"
      [] n = "0A000009" -> "0A000009.conf"
      [] n = "default" -> "default.conf"
      [] OTHER -> ".conf"

\* the hexadecimal form of an address
IpFile(ip) ==
    CASE ip = "10.0.0.1" -> "0A000001"
      [] ip = "10.0.0.9" -> "0A000009"
      [] ip = "10.0.0.3" -> "0A000003"
      [] ip = "10.0.0.4" -> "0A000004"
      [] OTHER -> "00000000"

\* "%s.repo" % dispname
RepoFile(r) ==
    CASE r = "r1" -> "r1.repo"
      [] r = "r2" -> "r2.repo"
      [] OTHER -> ".repo"

\* "http://%s/cblr/kickstarts/%s/ks.cfg" % (server, profile.name)
ProfileKsUrl(name) ==
    IF name = "p1" THEN "http://srv/cblr/kickstarts/p1/ks.cfg"
    ELSE "http://srv/cblr/kickstarts/p2/ks.cfg"

\* "http://%s/cblr/kickstarts_sys/%s/ks.cfg" % (server, system.name)
SystemKsUrl(name) ==
    CASE name = "s1" -> "http://srv/cblr/kickstarts_sys/s1/ks.cfg"
      [] name = "s2" -> "http://srv/cblr/kickstarts_sys/s2/ks.cfg"
      [] name = "default" -> "http://srv/cblr/kickstarts_sys/default/ks.cfg"
      [] OTHER -> "http://srv/cblr/kickstarts_sys/s3/ks.cfg"

\* mac.upper()
upper(mac) ==
    CASE mac = "aa:01" -> "AA:01"
      [] mac = "bb:02" -> "BB:02"
      [] mac = "cc:03" -> "CC:03"
      [] mac = "dd:04" -> "DD:04"
      [] OTHER -> mac

\* "generic%d" % counter
Generic(n) ==
    CASE n = 1 -> "generic1" [] n = 2 -> "generic2" [] n = 3 -> "generic3"
      [] n = 4 -> "generic4" [] n = 5 -> "generic5" [] OTHER -> "generic6"

\* str.startswith("/")
startswith_slash(k) == k = LocalKickstart

\* time.asctime(time.gmtime()) in the n-th run
Date(n) ==
    CASE n = 1 -> "day1" [] n = 2 -> "day2" [] n = 3 -> "day3" [] OTHER -> "later"

\* the keys of the modelled mappings, in the order a dump lists them
KeyOrder == <<"ksdevice", "text", "tree">>

RECURSIVE FlatFrom(_, _)
FlatFrom(m, i) ==
    IF i > Len(KeyOrder) THEN <<>>
    ELSE (IF KeyOrder[i] \in DOMAIN m THEN <<KeyOrder[i], m[KeyOrder[i]]>> ELSE <<>>)
         \o FlatFrom(m, i + 1)

\* utils.hash_to_string: the pairs of a mapping as one string
hash_to_string(m) == FlatFrom(m, 1)

Bool(b) == IF b THEN "yes" ELSE "no"

---------------------------------------------------------------------------
(* utils.blender: the effective mapping of one object, memoized per run.   *)
(* A blended mapping is a record: the fields the sync code reads, the two  *)
(* mapping-valued fields, and what the sync code itself does to a mapping  *)
(* it was handed (ks_meta deleted and folded to top level, kernel_options  *)
(* replaced by its string form, stanza keys added).                        *)

BlendKey(flag, kind, name) == <<kind, name, Bool(flag)>>

Blended(kind, name, kickstart, server, kopts, ksmeta, repos) ==
    [kind |-> kind, name |-> name, kickstart |-> kickstart, server |-> server,
     kernel_options |-> kopts, kopts_flat |-> FALSE,
     ks_meta |-> ksmeta, has_ks_meta |-> TRUE, top |-> EmptyMap,
     stanzas |-> FALSE, repos |-> repos]

\* the ancestor chain of the object resolves
BlendResolves(o, kind, obj) ==
    CASE kind = "distro" -> TRUE
      [] kind = "profile" -> HasDistro(o, obj)
      [] OTHER -> HasProfile(o, obj) /\ HasDistro(o, ProfileOf(o, obj))

\* the error naming the dangling link: the object and the missing parent
BrokenReference(o, kind, obj) ==
    IF kind = "profile" THEN <<"reference", obj.name, obj.distro>>
    ELSE IF ~HasProfile(o, obj) THEN <<"reference", obj.name, obj.profile>>
    ELSE <<"reference", obj.profile, ProfileOf(o, obj).distro>>

\* root to leaf: scalars overridden, mappings merged key by key.  A system
\* has no install-script field of its own, so it carries its profile's.
BlendCompute(o, kind, obj) ==
    CASE kind = "distro" ->
           Blended(kind, obj.name, "", o.settings.server,
                   obj.kernel_options, obj.ks_meta, <<>>)
      [] kind = "profile" ->
           LET d == DistroOf(o, obj)
           IN  Blended(kind, obj.name, obj.kickstart, o.settings.server,
                       Merge(d.kernel_options, obj.kernel_options),
                       Merge(d.ks_meta, obj.ks_meta), obj.repos)
      [] OTHER ->
           LET p == ProfileOf(o, obj)
               d == DistroOf(o, p)
           IN  Blended(kind, obj.name, p.kickstart, o.settings.server,
                       Merge(Merge(d.kernel_options, p.kernel_options),
                             obj.kernel_options),
                       Merge(Merge(d.ks_meta, p.ks_meta), obj.ks_meta), p.repos)

\* blender(api, flag, obj, blend_cache): a hit returns the cached mapping
\* itself; a miss computes, stores and returns it.  st.cache[key] is the
\* mapping the caller holds afterwards.
blender(st, o, flag, kind, obj) ==
    LET key == BlendKey(flag, kind, obj.name)
    IN  IF key \in DOMAIN st.cache THEN st
        ELSE IF ~BlendResolves(o, kind, obj)
             THEN [st EXCEPT !.err = BrokenReference(o, kind, obj)]
        ELSE [st EXCEPT !.cache = (key :> BlendCompute(o, kind, obj)) @@ st.cache]

---------------------------------------------------------------------------
(* clean_trees *)

KnownDirs ==
    {"webui", "localmirror", "repo_mirror", "ks_mirror", "kickstarts",
     "kickstarts_sys", "distros", "images", "systems", "profiles", "links",
     "repo_profile", "repo_system"}

PurgeDirs ==
    {"kickstarts", "kickstarts_sys", "images", "systems", "distros", "profiles",
     "repo_profile", "repo_system"}

\* the files of the listing first, then its directories: the entries of
\* one listing are independent of each other
clean_web_entry(f, path) ==
    LET x == Basename(path)
    IN  IF IsFile(f, path)
        THEN (IF ~endswith_py(x) THEN rmfile(f, path) ELSE f)
        ELSE IF IsDir(f, path)
        THEN LET f1 == IF x \notin KnownDirs THEN rmtree(f, path) ELSE f
             IN  IF x \in PurgeDirs THEN rmtree_contents(f1, path) ELSE f1
        ELSE f

RECURSIVE clean_web_entries(_, _)
clean_web_entries(f, todo) ==
    IF todo = {} THEN f
    ELSE LET path == CHOOSE q \in todo : TRUE
         IN  clean_web_entries(clean_web_entry(f, path), todo \ {path})

clean_trees(f) ==
    LET f1 == clean_web_entries(f, Children(f, webdir))
        f2 == rmtree_contents(f1, Join(tftpboot, "pxelinux.cfg"))
    IN  rmtree_contents(f2, Join(tftpboot, "images"))

---------------------------------------------------------------------------
(* The phases of run().  A phase maps st = [fs, cache, err] to the state   *)
(* it leaves; err # NoErr is the exception that leaves the phase, with     *)
(* everything done before the raise kept.                                  *)

Raise(st, e) == [st EXCEPT !.err = e]

SetFs(st, f) == [st EXCEPT !.fs = f]

\* open(path, "w"), write, close; IOError without the parent directory
write_to(st, path, content) ==
    IF CanWrite(st.fs, path) THEN SetFs(st, WriteFile(st.fs, path, content))
    ELSE Raise(st, <<"io", Basename(path)>>)

\* the tail of apply_template: mkdir(dirname(out_path)), then the write
apply_template_to(st, out_path, data_out) ==
    write_to(SetFs(st, mkdir(st.fs, Dirname(out_path))), out_path, data_out)

Loaders == <<"pxelinux.0", "elilo-3.6-ia64.efi">>

\* copyfile raises when the source cannot be read
copy_bootloaders(st, e) ==
    IF ~e.loaders THEN Raise(st, <<"copy", Loaders[1]>>)
    ELSE LET f1 == WriteFile(st.fs, Join(tftpboot, Loaders[1]), <<"bin", Loaders[1]>>)
             f2 == WriteFile(f1, Join(tftpboot, Loaders[2]), <<"bin", Loaders[2]>>)
         IN  SetFs(st, WriteFile(f2, Join(tftpboot, "menu.c32"), <<"bin", "menu.c32">>))

\* one pass of the dirtree loop of copy_single_distro_files
\* a slip: the kernel is copied as soon as it is found
copy_distro_into_kernel_first(st, e, d, dirtree) ==
    LET distro_dir == Join(Join(dirtree, "images"), d.name)
        st1 == SetFs(st, mkdir(st.fs, distro_dir))
    IN  IF ~e.kernel THEN Raise(st1, <<"kernel not found", Basename(d.kernel), d.name>>)
        ELSE LET f1 == WriteFile(st1.fs, Join(distro_dir, Basename(d.kernel)),
                                 <<"bin", Basename(d.kernel)>>)
             IN  IF ~e.initrd
                 THEN Raise(SetFs(st1, f1),
                            <<"initrd not found", Basename(d.initrd), d.name>>)
                 ELSE SetFs(st1, WriteFile(f1, Join(distro_dir, Basename(d.initrd)),
                                           <<"bin", Basename(d.initrd)>>))

\* the body of the dirtree loop of copy_single_distro_files: both files are
\* looked for before either is copied
copy_distro_into(st, e, d, dirtree) ==
    LET distro_dir == Join(Join(dirtree, "images"), d.name)
        st1 == SetFs(st, mkdir(st.fs, distro_dir))
    IN  IF ~e.kernel THEN Raise(st1, <<"kernel not found", Basename(d.kernel), d.name>>)
        ELSE IF ~e.initrd
        THEN Raise(st1, <<"initrd not found", Basename(d.initrd), d.name>>)
        ELSE LET f1 == WriteFile(st1.fs, Join(distro_dir, Basename(d.kernel)),
                                 <<"bin", Basename(d.kernel)>>)
             IN  SetFs(st1, WriteFile(f1, Join(distro_dir, Basename(d.initrd)),
                                      <<"bin", Basename(d.initrd)>>))

copy_single_distro_files(st, e, d) ==
    LET st1 == copy_distro_into(st, e, d, tftpboot)
    IN  IF st1.err # NoErr THEN st1 ELSE copy_distro_into(st1, e, d, webdir)

RECURSIVE copy_distros_from(_, _, _)
copy_distros_from(st, e, ds) ==
    IF ds = <<>> \/ st.err # NoErr THEN st
    ELSE copy_distros_from(copy_single_distro_files(st, e, Head(ds)), e, Tail(ds))

copy_distros(st, e, o) == copy_distros_from(st, e, o.distros)

\* a slip: the open of the input file is not in a try block
retemplate_one_repo_raising(st, blended, outseg, repo) ==
    LET infile == <<"web", "repo_mirror", repo, "config.repo">>
        outdir == Join(Join(webdir, outseg), blended.name)
        st1 == SetFs(st, mkdir(st.fs, outdir))
    IN  IF ~IsFile(st1.fs, infile) THEN Raise(st1, <<"io", Basename(infile)>>)
        ELSE apply_template_to(st1, Join(outdir, RepoFile(repo)),
                               <<"repo", repo, blended.name, blended.server>>)

\* the body of the infile loop of retemplate_yum_repos for one repository
retemplate_one_repo(st, blended, outseg, repo) ==
    LET infile == <<"web", "repo_mirror", repo, "config.repo">>
        outdir == Join(Join(webdir, outseg), blended.name)
        st1 == SetFs(st, mkdir(st.fs, outdir))
    IN  IF ~IsFile(st1.fs, infile) THEN st1
        ELSE apply_template_to(st1, Join(outdir, RepoFile(repo)),
                               <<"repo", repo, blended.name, blended.server>>)

RECURSIVE retemplate_repos_from(_, _, _, _)
retemplate_repos_from(st, blended, outseg, repos) ==
    IF repos = <<>> \/ st.err # NoErr THEN st
    ELSE retemplate_repos_from(retemplate_one_repo(st, blended, outseg, Head(repos)),
                               blended, outseg, Tail(repos))

\* a plausible slip: the output directory is made from the object's own
\* name before the object is blended
retemplate_yum_repos_mkdir_first(st, o, obj, is_profile) ==
    LET kind == IF is_profile THEN "profile" ELSE "system"
        outseg == IF is_profile THEN "repos_profile" ELSE "repos_system"
        st0 == SetFs(st, mkdir(st.fs, Join(Join(webdir, outseg), obj.name)))
        st1 == blender(st0, o, FALSE, kind, obj)
    IN  IF st1.err # NoErr THEN st1
        ELSE LET blended == st1.cache[BlendKey(FALSE, kind, obj.name)]
             IN  retemplate_repos_from(st1, blended, outseg, blended.repos)

retemplate_yum_repos(st, o, obj, is_profile) ==
    LET kind == IF is_profile THEN "profile" ELSE "system"
        outseg == IF is_profile THEN "repos_profile" ELSE "repos_system"
        st1 == blender(st, o, FALSE, kind, obj)
    IN  IF st1.err # NoErr THEN st1
        ELSE LET blended == st1.cache[BlendKey(FALSE, kind, obj.name)]
             IN  retemplate_repos_from(st1, blended, outseg, blended.repos)

RECURSIVE retemplate_from(_, _, _, _)
retemplate_from(st, o, coll, is_profile) ==
    IF coll = <<>> \/ st.err # NoErr THEN st
    ELSE retemplate_from(retemplate_yum_repos(st, o, Head(coll), is_profile),
                         o, Tail(coll), is_profile)

retemplate_all_yum_repos(st, o) ==
    retemplate_from(retemplate_from(st, o, o.profiles, TRUE), o, o.systems, FALSE)

---------------------------------------------------------------------------
(* validate_kickstarts: the install scripts of profiles and systems *)

RepoNames == <<"r1">>

StanzaFor(f, dir, repo) ==
    IF IsFile(f, Join(dir, RepoFile(repo))) THEN <<"repo", repo>> ELSE <<>>

\* generate_repo_stanza / generate_config_stanza: one line per manifest
\* that glob finds under <webdir>/repos_profile/<name>/
generate_repo_stanza(f, name) ==
    StanzaFor(f, <<"web", "repos_profile", name>>, RepoNames[1])

\* utils.find_kickstart + os.path.exists: a local path that is a file
kickstart_exists(e, kickstart) == startswith_slash(kickstart) /\ e.ks # "absent"

\* str(self.settings.pxe_just_once).upper()
str_upper(v) ==
    CASE v = "True" -> "TRUE"
      [] v = "False" -> "FALSE"
      [] v = "yes" -> "YES"
      [] OTHER -> v

Affirmatives == {"1", "Y", "YES", "TRUE"}

\* a slip: the setting is compared as it is spelled
generate_kickstart_signal_as_spelled(e, settings, kind, name, kickstart) ==
    LET fetch == IF kickstart # "" /\ e.ks # "absent" /\ startswith_slash(kickstart)
                 THEN <<"fetch", kind, name>> ELSE <<>>
    IN  IF kind = "system"
        THEN <<"done", kind, name>>
             \o (IF settings.pxe_just_once \in Affirmatives
                 THEN <<"nopxe", name>> ELSE <<>>)
             \o fetch
             \o (IF settings.run_post_install_trigger
                 THEN <<"trigger", name>> ELSE <<>>)
        ELSE <<"done", kind, name>> \o fetch

\* generate_kickstart_signal: the status request, then the optional ones
\* in the order of the patterns
generate_kickstart_signal(e, settings, kind, name, kickstart) ==
    LET fetch == IF kickstart # "" /\ e.ks # "absent" /\ startswith_slash(kickstart)
                 THEN <<"fetch", kind, name>> ELSE <<>>
    IN  IF kind = "system"
        THEN <<"done", kind, name>>
             \o (IF str_upper(settings.pxe_just_once) \in Affirmatives
                 THEN <<"nopxe", name>> ELSE <<>>)
             \o fetch
             \o (IF settings.run_post_install_trigger
                 THEN <<"trigger", name>> ELSE <<>>)
        ELSE <<"done", kind, name>> \o fetch

\* what the try block does to the mapping it holds: ks_meta deleted and
\* folded to top level, the stanza keys added, kernel_options flattened
Folded(meta) ==
    [meta EXCEPT !.top = Merge(meta.top, meta.ks_meta), !.ks_meta = EmptyMap,
                 !.has_ks_meta = FALSE, !.stanzas = TRUE, !.kopts_flat = TRUE]

\* the rendered install script
KickstartText(e, settings, f, kind, name, profile_name, meta) ==
    <<"ks", kind, name, meta.server>> \o generate_repo_stanza(f, profile_name)
    \o generate_kickstart_signal(e, settings, kind, name, meta.kickstart)
    \o hash_to_string(meta.kernel_options) \o hash_to_string(Folded(meta).top)

\* the part of both validate_kickstart_for_specific_* after the blend:
\* mkdir, then the try block; meta is the cached mapping itself
render_kickstart(st, e, settings, key, kind, name, profile_name, segment) ==
    LET meta == st.cache[key]
        copy_path == Join(Join(webdir, segment), name)
        dest == Join(copy_path, "ks.cfg")
        st1 == SetFs(st, mkdir(st.fs, copy_path))
    IN  IF ~kickstart_exists(e, meta.kickstart) THEN st
        ELSE IF ~meta.has_ks_meta THEN Raise(st1, <<"render", name, "KeyError">>)
        ELSE LET st2 == [st1 EXCEPT !.cache[key] = Folded(meta)]
             IN  IF e.ks = "bad" THEN Raise(st2, <<"render", name, "template">>)
                 ELSE apply_template_to(st2, dest,
                          KickstartText(e, settings, st2.fs, kind, name, profile_name,
                                        meta))

validate_kickstart_for_specific_profile(st, e, o, g) ==
    LET st1 == blender(st, o, FALSE, "profile", g)
    IN  IF st1.err # NoErr THEN st1
        ELSE IF ~HasDistro(o, g) THEN Raise(st1, <<"reference", g.name, g.distro>>)
        ELSE render_kickstart(st1, e, o.settings, BlendKey(FALSE, "profile", g.name),
                              "profile", g.name, g.name, "kickstarts")

validate_kickstart_for_specific_system(st, e, o, s) ==
    IF ~HasProfile(o, s) THEN Raise(st, <<"reference", s.name, s.profile>>)
    ELSE LET st1 == blender(st, o, FALSE, "system", s)
         IN  IF st1.err # NoErr THEN st1
             ELSE render_kickstart(st1, e, o.settings,
                                   BlendKey(FALSE, "system", s.name),
                                   "system", s.name, s.profile, "kickstarts_sys")

RECURSIVE validate_profiles_from(_, _, _, _)
validate_profiles_from(st, e, o, ps) ==
    IF ps = <<>> \/ st.err # NoErr THEN st
    ELSE validate_profiles_from(
             validate_kickstart_for_specific_profile(st, e, o, Head(ps)), e, o, Tail(ps))

RECURSIVE validate_systems_from(_, _, _, _)
validate_systems_from(st, e, o, ss) ==
    IF ss = <<>> \/ st.err # NoErr THEN st
    ELSE validate_systems_from(
             validate_kickstart_for_specific_system(st, e, o, Head(ss)), e, o, Tail(ss))

\* a slip: a failed render is passed over and the next object is tried
validate_kickstarts_skipping(st, e, o) ==
    LET st1 == validate_profiles_from(st, e, o, o.profiles)
        st2 == validate_systems_from([st1 EXCEPT !.err = NoErr], e, o, o.systems)
    IN  [st2 EXCEPT !.err = NoErr]

validate_kickstarts(st, e, o) ==
    validate_systems_from(validate_profiles_from(st, e, o, o.profiles), e, o, o.systems)

---------------------------------------------------------------------------
(* build_trees: listings, per-distro, per-profile and per-system files *)

RECURSIVE Names(_)
Names(coll) == IF coll = <<>> THEN <<>> ELSE <<Head(coll).name>> \o Names(Tail(coll))

write_listings(st, o) ==
    LET st1 == write_to(st, Join(webdir, "profile_list"), <<"list">> \o Names(o.profiles))
    IN  IF st1.err # NoErr THEN st1
        ELSE write_to(st1, Join(webdir, "system_list"), <<"list">> \o Names(o.systems))

\* yaml.dump of a blended mapping
Yaml(b) ==
    <<"yaml", b.kind, b.name, b.kickstart, b.server>>
    \o hash_to_string(b.kernel_options) \o hash_to_string(b.ks_meta)

write_distro_file(st, o, distro) ==
    LET st1 == blender(st, o, TRUE, "distro", distro)
    IN  IF st1.err # NoErr THEN st1
        ELSE write_to(st1, <<"web", "distros", distro.name>>,
                      Yaml(st1.cache[BlendKey(TRUE, "distro", distro.name)]))

\* the mapping is the cached one: the rewritten kickstart stays in the cache
write_profile_file(st, o, profile) ==
    LET key == BlendKey(TRUE, "profile", profile.name)
        st1 == blender(st, o, TRUE, "profile", profile)
    IN  IF st1.err # NoErr THEN st1
        ELSE IF ~CanWrite(st1.fs, <<"web", "profiles", profile.name>>)
        THEN Raise(st1, <<"io", profile.name>>)
        ELSE LET st2 == IF startswith_slash(st1.cache[key].kickstart)
                        THEN [st1 EXCEPT !.cache[key].kickstart = ProfileKsUrl(profile.name)]
                        ELSE st1
             IN  write_to(st2, <<"web", "profiles", profile.name>>, Yaml(st2.cache[key]))

write_system_file(st, o, system) ==
    LET st1 == blender(st, o, TRUE, "system", system)
    IN  IF st1.err # NoErr THEN st1
        ELSE write_to(st1, <<"web", "systems", system.name>>,
                      Yaml(st1.cache[BlendKey(TRUE, "system", system.name)]))

\* utils.get_config_filename(system, interface): the encoded address
get_config_filename(system, name) ==
    LET i == system.interfaces[name]
    IN  IF system.name = "default" THEN "default"
        ELSE IF i.mac_address # "" THEN MacFile(i.mac_address)
        ELSE IF i.ip_address # "" THEN IpFile(i.ip_address)
        ELSE system.name

\* system.is_pxe_supported()
is_pxe_supported(distro) == distro.arch # "s390x"

PxeArchs == {"x86", "x86_64", "standard"}

\* distro.breed is None
NoBreed == "None"

\* append_line.replace("ksdevice", "interface")
replace_ksdevice(line) ==
    [i \in DOMAIN line |-> IF line[i] = "ksdevice" THEN "interface" ELSE line[i]]

\* a slip: the initrd is named on the append line of every target
initrd_option_always(distro, is_ia64) == <<"initrd=", Basename(distro.initrd)>>

\* "%s initrd=%s" % (append_line, initrd_path), unless the target is ia64
initrd_option(distro, is_ia64) ==
    IF ~is_ia64 THEN <<"initrd=", Basename(distro.initrd)>> ELSE <<>>

\* the kickstart directive of the append line
KickstartDirective(kickstart_path, has_system, system_name, profile_name, breed) ==
    LET path == IF has_system /\ startswith_slash(kickstart_path)
                THEN SystemKsUrl(system_name)
                ELSE IF startswith_slash(kickstart_path)
                THEN ProfileKsUrl(profile_name)
                ELSE kickstart_path
    IN  IF kickstart_path = "" THEN <<>>
        ELSE CASE breed = NoBreed \/ breed = "redhat" -> <<"ks=", path>>
               [] breed = "suse" -> <<"autoyast=", path>>
               [] breed = "debian" -> <<"auto=true url=", path>>
               [] OTHER -> <<>>

\* the blend calls of write_pxe_file: the profile, then the system if any
pxe_blend(st, o, has_system, system, profile) ==
    LET st1 == blender(st, o, TRUE, "profile", profile)
    IN  IF st1.err # NoErr \/ ~has_system THEN st1
        ELSE blender(st1, o, TRUE, "system", system)

\* the text write_pxe_file renders, from the state pxe_blend leaves
pxe_buffer(st, has_system, system, profile, distro, is_ia64) ==
    LET kickstart_path == st.cache[BlendKey(TRUE, "profile", profile.name)].kickstart
        blended == IF has_system THEN st.cache[BlendKey(TRUE, "system", system.name)]
                   ELSE st.cache[BlendKey(TRUE, "profile", profile.name)]
        template == IF ~has_system THEN "pxeprofile.template"
                    ELSE IF ~is_ia64 THEN "pxesystem.template"
                    ELSE "pxesystem_ia64.template"
        append_line == <<"append">> \o hash_to_string(blended.kernel_options)
                       \o initrd_option(distro, is_ia64)
                       \o KickstartDirective(kickstart_path, has_system, system.name,
                                             profile.name, distro.breed)
    IN  <<"pxe", template, profile.name, distro.name,
          IF ~is_ia64 /\ ~has_system THEN "MENU LABEL" ELSE "">>
        \o (IF kickstart_path # "" /\ distro.breed = "debian"
            THEN replace_ksdevice(append_line) ELSE append_line)

\* write_pxe_file for a system: nothing when netboot is off
write_pxe_file(st, e, o, filename, system, profile, distro, is_ia64) ==
    IF ~system.netboot_enabled THEN st
    ELSE LET st1 == pxe_blend(st, o, TRUE, system, profile)
         IN  IF st1.err # NoErr THEN st1
             ELSE IF ~e.templates THEN Raise(st1, <<"io", "pxesystem.template">>)
             ELSE write_to(st1, filename,
                           pxe_buffer(st1, TRUE, system, profile, distro, is_ia64))

\* the boot-config path of one interface: f2 of write_all_system_files
BootConfigPath(system, distro, name) ==
    IF distro.arch = "ia64"
    THEN Join(tftpboot, ConfName(get_config_filename(system, name)))
    ELSE <<"tftp", "pxelinux.cfg", get_config_filename(system, name)>>

\* one pass of the interface loop of write_all_system_files
write_interface_files(st, e, o, system, profile, distro, name) ==
    LET f2 == BootConfigPath(system, distro, name)
        bound == distro.arch \in PxeArchs \/ distro.arch = "ia64"
        st1 == IF system.netboot_enabled /\ is_pxe_supported(distro)
               THEN (IF bound
                     THEN write_pxe_file(st, e, o, f2, system, profile, distro,
                                         distro.arch = "ia64")
                     ELSE st)
               ELSE (IF bound THEN SetFs(st, rmfile(st.fs, f2))
                     ELSE Raise(st, <<"UnboundLocalError", "f2">>))
    IN  IF st1.err # NoErr THEN st1 ELSE write_system_file(st1, o, system)

RECURSIVE write_interfaces_from(_, _, _, _, _, _, _)
write_interfaces_from(st, e, o, system, profile, distro, i) ==
    IF i > Len(IfaceOrder) \/ st.err # NoErr THEN st
    ELSE write_interfaces_from(
             IF IfaceOrder[i] \in DOMAIN system.interfaces
             THEN write_interface_files(st, e, o, system, profile, distro, IfaceOrder[i])
             ELSE st,
             e, o, system, profile, distro, i + 1)

write_all_system_files(st, e, o, system) ==
    IF ~HasProfile(o, system)
    THEN Raise(st, <<"reference", system.name, system.profile>>)
    ELSE IF ~HasDistro(o, ProfileOf(o, system))
    THEN Raise(st, <<"reference", system.profile, ProfileOf(o, system).distro>>)
    ELSE write_interfaces_from(st, e, o, system, ProfileOf(o, system),
                               DistroOf(o, ProfileOf(o, system)), 1)

RECURSIVE write_distro_files_from(_, _, _)
write_distro_files_from(st, o, ds) ==
    IF ds = <<>> \/ st.err # NoErr THEN st
    ELSE write_distro_files_from(write_distro_file(st, o, Head(ds)), o, Tail(ds))

RECURSIVE write_profile_files_from(_, _, _)
write_profile_files_from(st, o, ps) ==
    IF ps = <<>> \/ st.err # NoErr THEN st
    ELSE write_profile_files_from(write_profile_file(st, o, Head(ps)), o, Tail(ps))

RECURSIVE write_system_files_from(_, _, _, _)
write_system_files_from(st, e, o, ss) ==
    IF ss = <<>> \/ st.err # NoErr THEN st
    ELSE write_system_files_from(write_all_system_files(st, e, o, Head(ss)), e, o, Tail(ss))

---------------------------------------------------------------------------
(* write_dhcp_file, regen_ethers, regen_hosts *)

dhcpd_conf == <<"etc", "dhcpd.conf">>
dnsmasq_conf == <<"etc", "dnsmasq.conf">>

\* self.settings.manage_dhcp_mode.lower()
lower(mode) ==
    CASE mode = "ISC" -> "isc"
      [] mode = "Dnsmasq" -> "dnsmasq"
      [] OTHER -> mode

\* settings_file: the file of the DHCP manager the mode names
settings_file(mode) == IF lower(mode) = "dnsmasq" THEN dnsmasq_conf ELSE dhcpd_conf

\* template_file: the template that goes with the file
template_file(mode) ==
    IF lower(mode) = "dnsmasq" THEN "dnsmasq.template" ELSE "dhcp.template"
ethers == <<"etc", "ethers">>
cobbler_hosts == <<"var", "cobbler_hosts">>

\* every (system, interface name) pair in iteration order
RECURSIVE IfacesOf(_, _)
IfacesOf(system, i) ==
    IF i > Len(IfaceOrder) THEN <<>>
    ELSE (IF IfaceOrder[i] \in DOMAIN system.interfaces
          THEN <<[system |-> system, interface |-> system.interfaces[IfaceOrder[i]]]>>
          ELSE <<>>) \o IfacesOf(system, i + 1)

RECURSIVE AllIfaces(_)
AllIfaces(ss) == IF ss = <<>> THEN <<>> ELSE IfacesOf(Head(ss), 1) \o AllIfaces(Tail(ss))

\* a slip: the counter is not incremented
dhcp_record_unnumbered(mode, arch, interface, counter) ==
    LET mac == interface.mac_address
        ip == interface.ip_address
        host == interface.hostname
    IN  IF mode = "isc"
        THEN <<"host", IF host # "" THEN host ELSE Generic(1)>>
             \o (IF arch = "ia64" THEN <<"filename", Loaders[2]>> ELSE <<>>)
             \o <<"hardware ethernet", mac>>
             \o (IF ip # "" THEN <<"fixed-address", ip>> ELSE <<>>)
        ELSE IF ip # "" /\ arch = "ia64" THEN <<"dhcp-host=net:ia64", ip>>
        ELSE <<>>

\* the record of one interface that has a MAC; counter counts such interfaces
dhcp_record(mode, arch, interface, counter) ==
    LET mac == interface.mac_address
        ip == interface.ip_address
        host == interface.hostname
    IN  IF mode = "isc"
        THEN <<"host", IF host # "" THEN host ELSE Generic(counter)>>
             \o (IF arch = "ia64" THEN <<"filename", Loaders[2]>> ELSE <<>>)
             \o <<"hardware ethernet", mac>>
             \o (IF ip # "" THEN <<"fixed-address", ip>> ELSE <<>>)
        ELSE IF ip # "" /\ arch = "ia64" THEN <<"dhcp-host=net:ia64", ip>>
        ELSE <<>>

\* a slip: every record goes to the default bucket
RECURSIVE dhcp_bucket_untagged(_, _, _, _, _)
dhcp_bucket_untagged(mode, o, ifs, tag, counter) ==
    IF ifs = <<>> THEN <<>>
    ELSE LET x == Head(ifs)
             i == x.interface
             arch == DistroOf(o, ProfileOf(o, x.system)).arch
         IN  IF i.mac_address = ""
             THEN dhcp_bucket_untagged(mode, o, Tail(ifs), tag, counter)
             ELSE (IF tag = "default" THEN dhcp_record(mode, arch, i, counter + 1)
                   ELSE <<>>)
                  \o dhcp_bucket_untagged(mode, o, Tail(ifs), tag, counter + 1)

\* system_definitions[tag] after the loop, for one tag
RECURSIVE dhcp_bucket(_, _, _, _, _)
dhcp_bucket(mode, o, ifs, tag, counter) ==
    IF ifs = <<>> THEN <<>>
    ELSE LET x == Head(ifs)
             i == x.interface
             dhcp_tag == IF i.dhcp_tag = "" THEN "default" ELSE i.dhcp_tag
             arch == DistroOf(o, ProfileOf(o, x.system)).arch
         IN  IF i.mac_address = "" THEN dhcp_bucket(mode, o, Tail(ifs), tag, counter)
             ELSE (IF dhcp_tag = tag THEN dhcp_record(mode, arch, i, counter + 1) ELSE <<>>)
                  \o dhcp_bucket(mode, o, Tail(ifs), tag, counter + 1)

DhcpTags == <<"default", "lab">>

\* what write_dhcp_file renders: the date, then each bucket under its variable
dhcp_text(o, date) ==
    LET mode == lower(o.settings.manage_dhcp_mode)
        ifs == AllIfaces(o.systems)
    IN  <<template_file(o.settings.manage_dhcp_mode), date,
          "insert_cobbler_system_definitions">>
        \o dhcp_bucket(mode, o, ifs, DhcpTags[1], 0)
        \o <<"insert_cobbler_system_definitions_lab">>
        \o dhcp_bucket(mode, o, ifs, DhcpTags[2], 0)

ParentsResolve(o) ==
    \A i \in DOMAIN o.systems :
        HasProfile(o, o.systems[i]) /\ HasDistro(o, ProfileOf(o, o.systems[i]))

write_dhcp_file(st, e, o, date) ==
    IF ~e.templates THEN Raise(st, <<"io", "dhcp.template">>)
    ELSE IF ~ParentsResolve(o) THEN Raise(st, <<"AttributeError", "get_conceptual_parent">>)
    ELSE apply_template_to(st, settings_file(o.settings.manage_dhcp_mode),
                           dhcp_text(o, date))

RECURSIVE ethers_lines(_)
ethers_lines(ifs) ==
    IF ifs = <<>> THEN <<>>
    ELSE LET i == Head(ifs).interface
         IN  (IF i.mac_address # "" /\ i.ip_address # ""
              THEN <<upper(i.mac_address), i.ip_address>> ELSE <<>>)
             \o ethers_lines(Tail(ifs))

\* a plausible slip: the table is opened for appending
regen_ethers_append(st, o) ==
    write_to(st, ethers,
             (IF IsFile(st.fs, ethers) THEN st.fs[ethers] ELSE <<"ethers">>)
             \o ethers_lines(AllIfaces(o.systems)))

\* a slip: every line is written twice
regen_ethers_twice(st, o) ==
    write_to(st, ethers, <<"ethers">> \o ethers_lines(AllIfaces(o.systems))
                         \o ethers_lines(AllIfaces(o.systems)))

\* open("/etc/ethers", "w+"): the table is rebuilt from nothing
regen_ethers(st, o) ==
    write_to(st, ethers, <<"ethers">> \o ethers_lines(AllIfaces(o.systems)))

RECURSIVE hosts_lines(_)
hosts_lines(ifs) ==
    IF ifs = <<>> THEN <<>>
    ELSE LET i == Head(ifs).interface
         IN  (IF i.mac_address # "" /\ i.hostname # "" /\ i.ip_address # ""
              THEN <<i.ip_address, i.hostname>> ELSE <<>>)
             \o hosts_lines(Tail(ifs))

\* a slip: an interface without a MAC is not passed over
regen_hosts_unskipped(st, o) ==
    LET ifs == AllIfaces(o.systems)
        named == [n \in DOMAIN ifs |->
                     [ifs[n] EXCEPT !.interface.mac_address =
                          IF @ = "" THEN "00:00" ELSE @]]
    IN  write_to(st, cobbler_hosts, <<"hosts">> \o hosts_lines(named))

regen_hosts(st, o) ==
    write_to(st, cobbler_hosts, <<"hosts">> \o hosts_lines(AllIfaces(o.systems)))

\* the three calls run() makes when manage_dhcp is set
dhcp_phase(st, e, o, date) ==
    LET st1 == write_dhcp_file(st, e, o, date)
        st2 == IF st1.err # NoErr THEN st1 ELSE regen_ethers(st1, o)
    IN  IF st2.err # NoErr THEN st2 ELSE regen_hosts(st2, o)

---------------------------------------------------------------------------
(* make_pxe_menu *)

\* cmp on the names of the modelled objects
NameRank(n) ==
    CASE n = "p1" -> 1 [] n = "p2" -> 2 [] OTHER -> 3

RECURSIVE InsertByName(_, _)
InsertByName(sorted, p) ==
    IF sorted = <<>> THEN <<p>>
    ELSE IF NameRank(p.name) < NameRank(Head(sorted).name) THEN <<p>> \o sorted
    ELSE <<Head(sorted)>> \o InsertByName(Tail(sorted), p)

\* a slip: the profiles are taken in the order the store yields them
SortByStoreOrder(ps) == ps

\* profile_list.sort(sort_name)
RECURSIVE SortByName(_)
SortByName(ps) ==
    IF ps = <<>> THEN <<>> ELSE InsertByName(SortByName(Tail(ps)), Head(ps))

\* the menu entries of the sorted profiles, with the blends they cause
RECURSIVE menu_items(_, _, _, _)
menu_items(st, o, ps, items) ==
    IF ps = <<>> \/ st.err # NoErr THEN [st |-> st, items |-> items]
    ELSE LET profile == Head(ps)
             st1 == pxe_blend(st, o, FALSE, profile, profile)
         IN  IF st1.err # NoErr THEN [st |-> st1, items |-> items]
             ELSE menu_items(st1, o, Tail(ps),
                      items \o pxe_buffer(st1, FALSE, profile, profile,
                                          DistroOf(o, profile), FALSE))

\* a slip: the menu is written whether or not a system is named default
make_pxe_menu_unguarded(st, e, o) ==
    IF ~e.templates THEN Raise(st, <<"io", "pxedefault.template">>)
    ELSE LET r == menu_items(st, o, SortByName(o.profiles), <<>>)
         IN  IF r.st.err # NoErr THEN r.st
             ELSE apply_template_to(r.st, <<"tftp", "pxelinux.cfg", "default">>,
                                    <<"menu">> \o r.items)

make_pxe_menu(st, e, o) ==
    IF find(o.systems, "default") # <<>> THEN st
    ELSE IF ~e.templates THEN Raise(st, <<"io", "pxedefault.template">>)
    ELSE LET r == menu_items(st, o, SortByName(o.profiles), <<>>)
         IN  IF r.st.err # NoErr THEN r.st
             ELSE apply_template_to(r.st, <<"tftp", "pxelinux.cfg", "default">>,
                                    <<"menu">> \o r.items)

---------------------------------------------------------------------------
(* The initial states: an object store, input files, a filesystem. *)

NoObjs == ObjectSet("x86", <<>>, <<>>, FALSE)

\* no apply_template call is followed
NoCall == <<>>

NoRun == [valid |-> FALSE, run |-> 0, fs |-> <<>>, objs |-> NoObjs]

\* the same objects under the other DHCP manager
Dnsmasq(o) == [o EXCEPT !.settings.manage_dhcp_mode = "dnsmasq"]

\* the same objects under another spelling of the mode setting
Mode(o, m) == [o EXCEPT !.settings.manage_dhcp_mode = m]

\* spellings of manage_dhcp_mode besides isc and dnsmasq
OtherModes == {"ISC", "Dnsmasq", "dhcpd"}

\* the breeds a distro can be of
Breeds == {"redhat", NoBreed, "suse", "debian"}

\* the same objects with both distros of another breed
Bred(o, b) == [o EXCEPT !.distros[1].breed = b, !.distros[2].breed = b]

\* the same objects with both optional requests of the done signal asked for
Signalling(o) ==
    [o EXCEPT !.settings.pxe_just_once = "1", !.settings.run_post_install_trigger = TRUE]

ObjectSets ==
    {ObjectSet(arch, ps, ss, dhcp) :
        arch \in Archs, ps \in ProfileLists, ss \in SystemLists, dhcp \in BOOLEAN}
    \cup {Dnsmasq(ObjectSet(arch, ps, ss, TRUE)) :
            arch \in Archs, ps \in ProfileLists, ss \in SystemLists}
    \cup {Signalling(ObjectSet("x86", <<Profile1>>, ss, FALSE)) : ss \in SystemLists}
    \cup {Mode(ObjectSet("ia64", <<Profile1>>, ss, TRUE), m) :
            ss \in SystemLists, m \in OtherModes}
    \cup {Bred(ObjectSet(arch, <<Profile2, Profile1>>, ss, FALSE), b) :
            arch \in {"x86", "ia64"}, ss \in SystemLists, b \in Breeds \ {"redhat"}}

Env(loaders, kernel, ks, templates) ==
    [loaders |-> loaders, kernel |-> kernel, initrd |-> TRUE, ks |-> ks,
     templates |-> templates,
     snippets |-> ("partitions" :> "clearpart --all")]

HealthyEnv == Env(TRUE, TRUE, "ok", TRUE)

\* the healthy inputs, and each input missing or broken on its own
Envs ==
    {HealthyEnv, Env(FALSE, TRUE, "ok", TRUE), Env(TRUE, FALSE, "ok", TRUE),
     Env(TRUE, TRUE, "bad", TRUE), Env(TRUE, TRUE, "absent", TRUE),
     Env(TRUE, TRUE, "ok", FALSE), [HealthyEnv EXCEPT !.initrd = FALSE]}

Tree(dirs, files) ==
    [p \in dirs \cup DOMAIN files |-> IF p \in dirs THEN DirMark ELSE files[p]]

\* the directories the package installs
SkeletonDirs ==
    {<<"etc">>, <<"var">>, webdir, tftpboot,
     <<"web", "kickstarts">>, <<"web", "kickstarts_sys">>, <<"web", "distros">>,
     <<"web", "images">>, <<"web", "systems">>, <<"web", "profiles">>,
     <<"web", "repo_mirror">>, <<"web", "webui">>,
     <<"tftp", "pxelinux.cfg">>, <<"tftp", "images">>}

\* what `cobbler reposync` leaves for repository r1
MirrorDirs == {<<"web", "repo_mirror", "r1">>}

MirrorFiles == <<"web", "repo_mirror", "r1", "config.repo">> :> <<"conf", "r1">>

\* entries no current object accounts for
StrayDirs ==
    {<<"web", "junk">>, <<"web", "repos_profile">>, <<"web", "repos_profile", "p9">>,
     <<"tftp", "images", "d0">>}

StrayFiles ==
    <<"web", "stray.txt">> :> <<"text", "stray">>
    @@ <<"web", "watcher.py">> :> <<"text", "py">>
    @@ <<"web", "junk", "x">> :> <<"text", "junk">>
    @@ <<"web", "repos_profile", "p9", "r1.repo">> :> <<"repo", "r1", "p9", "srv">>
    @@ <<"web", "systems", "s9">> :> <<"yaml", "system", "s9">>
    @@ <<"web", "systems", ".keep">> :> <<"text", "keep">>
    @@ <<"web", "webui", "index.html">> :> <<"text", "ui">>
    @@ <<"tftp", "pxelinux.cfg", "01-ff-09">> :> <<"pxe", "old">>
    @@ dhcpd_conf :> <<"dhcp", "old">>
    @@ ethers :> <<"ethers", "old">>
    @@ <<"tftp", "pxelinux.cfg", ".keep">> :> <<"text", "keep">>
    @@ <<"tftp", "images", "d0", "vmlinuz">> :> <<"bin", "vmlinuz">>
    @@ <<"tftp", "README">> :> <<"text", "readme">>

UnderTftp(p) == IsPrefix(tftpboot, p)

InitialTrees ==
    {Tree(SkeletonDirs \cup MirrorDirs, MirrorFiles),
     Tree(SkeletonDirs, <<>>),
     Tree(SkeletonDirs \cup MirrorDirs \cup StrayDirs, MirrorFiles @@ StrayFiles)}

\* the same trees on a machine whose boot-tree root was never created
WithoutTftp(f) == Restrict(f, {p \in DOMAIN f : ~UnderTftp(p)})

Init ==
    /\ \/ /\ env = HealthyEnv
          /\ store \in ObjectSets
          /\ fs \in InitialTrees
       \/ /\ env \in Envs \ {HealthyEnv}
          /\ store = ObjectSet("x86", <<Profile2, Profile1>>, <<System1, System2>>, TRUE)
          /\ fs \in InitialTrees
       \/ /\ env = HealthyEnv
          /\ store = ObjectSet("x86", <<Profile1>>, <<System1>>, TRUE)
          /\ fs \in {WithoutTftp(f) : f \in InitialTrees}
    /\ config = store
    /\ objs = NoObjs
    /\ blend_cache = <<>>
    /\ snippet_cache = <<>>
    /\ pc = "idle"
    /\ log = <<>>
    /\ err = NoErr
    /\ runs = 0
    /\ fs0 = fs
    /\ captured = NoObjs
    /\ lastDone = NoRun
    /\ prevDone = NoRun
    /\ tpl = NoCall

---------------------------------------------------------------------------
(* BootSync.__init__ and run() *)

\* load_snippet_cache: every file of the snippets directory, by basename
load_snippet_cache(e) == e.snippets

\* BootSync(config): the collections are captured, the caches start empty
Construct ==
    /\ pc \in {"idle", "done", "failed"}
    /\ runs < MaxRuns
    /\ objs' = config
    /\ captured' = config
    /\ blend_cache' = <<>>
    /\ snippet_cache' = load_snippet_cache(env)
    /\ pc' = "check"
    /\ log' = <<>>
    /\ err' = NoErr
    /\ runs' = runs + 1
    /\ fs0' = fs
    /\ UNCHANGED <<tpl, store, config, env, fs, lastDone, prevDone>>

\* between two syncs an object is removed from the store through the API
EditStore ==
    /\ pc \in {"done", "failed"}
    /\ runs < MaxRuns
    /\ \E i \in DOMAIN store.systems :
           store' = [store EXCEPT !.systems = RemoveAt(store.systems, i)]
    /\ config' = store'
    /\ pc' = "idle"
    /\ UNCHANGED <<tpl, env, fs, objs, blend_cache, snippet_cache, log, err, runs, fs0,
                   captured, lastDone, prevDone>>

\* a slip: the triggers run before the directory is looked for
precondition_unchecked(f) == TRUE

\* os.path.exists(self.settings.tftpboot)
precondition(f) == Exists(f, tftpboot)

RunCheck ==
    /\ pc = "check"
    /\ IF precondition(fs)
       THEN pc' = "PreHook" /\ err' = NoErr
       ELSE pc' = "failed" /\ err' = <<"precondition", Basename(tftpboot)>>
    /\ UNCHANGED <<tpl, store, config, env, fs, objs, blend_cache, snippet_cache, log,
                   runs, fs0, captured, lastDone, prevDone>>

\* what the pre-sync trigger programs may leave in the store: nothing
\* changed, or the system listed last removed
run_triggers(s) ==
    {s} \cup {[s EXCEPT !.systems = RemoveAt(s.systems, Len(s.systems))] :
                 x \in {1} \cap DOMAIN s.systems}

PreHook ==
    /\ pc = "PreHook"
    /\ log' = Append(log, "PreHook")
    /\ store' \in run_triggers(store)
    /\ pc' = "ReloadState"
    /\ UNCHANGED <<tpl, config, env, fs, objs, blend_cache, snippet_cache, err, runs, fs0,
                   captured, lastDone, prevDone>>

\* a slip: the collections captured by __init__ are kept
reload_keeps(held, loaded) == held

\* self.distros = self.config.distros() ... after the deserialize
reload(held, loaded) == loaded

\* api.deserialize(), then the five collections are read again
ReloadState ==
    /\ pc = "ReloadState"
    /\ log' = Append(log, "ReloadState")
    /\ config' = store
    /\ objs' = reload(objs, config')
    /\ pc' = "CleanTree"
    /\ UNCHANGED <<tpl, store, env, fs, blend_cache, snippet_cache, err, runs, fs0,
                   captured, lastDone, prevDone>>

\* a slip: the distro images are copied before the boot loaders
NextPhaseSwapped(phase, settings) ==
    CASE phase = "CleanTree" -> "CopyDistroImages"
      [] phase = "CopyDistroImages" -> "CopyBootloaders"
      [] phase = "CopyBootloaders" -> "RetemplateRepoManifests"
      [] phase = "RetemplateRepoManifests" -> "ValidateAndRenderInstallScripts"
      [] phase = "ValidateAndRenderInstallScripts" -> "Listings"
      [] phase = "Listings" -> "PerDistro"
      [] phase = "PerDistro" -> "PerProfile"
      [] phase = "PerProfile" -> "PerSystem"
      [] phase = "PerSystem" -> IF settings.manage_dhcp THEN "DHCP" ELSE "BootMenu"
      [] phase = "DHCP" -> "BootMenu"
      [] phase = "BootMenu" -> "PostHook"
      [] OTHER -> "done"

\* a slip: the DHCP files are written whatever manage_dhcp says
NextPhaseAlwaysDhcp(phase, settings) ==
    CASE phase = "CleanTree" -> "CopyBootloaders"
      [] phase = "CopyBootloaders" -> "CopyDistroImages"
      [] phase = "CopyDistroImages" -> "RetemplateRepoManifests"
      [] phase = "RetemplateRepoManifests" -> "ValidateAndRenderInstallScripts"
      [] phase = "ValidateAndRenderInstallScripts" -> "Listings"
      [] phase = "Listings" -> "PerDistro"
      [] phase = "PerDistro" -> "PerProfile"
      [] phase = "PerProfile" -> "PerSystem"
      [] phase = "PerSystem" -> "DHCP"
      [] phase = "DHCP" -> "BootMenu"
      [] phase = "BootMenu" -> "PostHook"
      [] OTHER -> "done"

\* the statement of run() that follows each phase
NextPhase(phase, settings) ==
    CASE phase = "CleanTree" -> "CopyBootloaders"
      [] phase = "CopyBootloaders" -> "CopyDistroImages"
      [] phase = "CopyDistroImages" -> "RetemplateRepoManifests"
      [] phase = "RetemplateRepoManifests" -> "ValidateAndRenderInstallScripts"
      [] phase = "ValidateAndRenderInstallScripts" -> "Listings"
      [] phase = "Listings" -> "PerDistro"
      [] phase = "PerDistro" -> "PerProfile"
      [] phase = "PerProfile" -> "PerSystem"
      [] phase = "PerSystem" -> IF settings.manage_dhcp THEN "DHCP" ELSE "BootMenu"
      [] phase = "DHCP" -> "BootMenu"
      [] phase = "BootMenu" -> "PostHook"
      [] OTHER -> "done"

\* a slip: the exception of a phase is caught and the run goes on
AfterPhaseSwallowed(phase, e, settings) == NextPhase(phase, settings)

\* run() has no handler: an exception leaves it at once
AfterPhase(phase, e, settings) ==
    IF e # NoErr THEN "failed" ELSE NextPhase(phase, settings)

St == [fs |-> fs, cache |-> blend_cache, err |-> NoErr]

\* one phase of run(): it starts, and ends in the state st1
RunPhase(phase, st1) ==
    /\ pc = phase
    /\ log' = Append(log, phase)
    /\ fs' = st1.fs
    /\ blend_cache' = st1.cache
    /\ err' = st1.err
    /\ pc' = AfterPhase(phase, st1.err, objs.settings)
    /\ UNCHANGED <<tpl, store, config, env, objs, snippet_cache, runs, fs0, captured,
                   lastDone, prevDone>>

CleanTree == RunPhase("CleanTree", SetFs(St, clean_trees(fs)))

CopyBootloaders == RunPhase("CopyBootloaders", copy_bootloaders(St, env))

CopyDistroImages == RunPhase("CopyDistroImages", copy_distros(St, env, objs))

RetemplateRepoManifests ==
    RunPhase("RetemplateRepoManifests", retemplate_all_yum_repos(St, objs))

ValidateAndRenderInstallScripts ==
    RunPhase("ValidateAndRenderInstallScripts", validate_kickstarts(St, env, objs))

Listings == RunPhase("Listings", write_listings(St, objs))

PerDistro == RunPhase("PerDistro", write_distro_files_from(St, objs, objs.distros))

PerProfile == RunPhase("PerProfile", write_profile_files_from(St, objs, objs.profiles))

PerSystem == RunPhase("PerSystem", write_system_files_from(St, env, objs, objs.systems))

DHCP == RunPhase("DHCP", dhcp_phase(St, env, objs, Date(runs)))

BootMenu == RunPhase("BootMenu", make_pxe_menu(St, env, objs))

\* the post-sync triggers, then run() returns True
PostHook ==
    /\ pc = "PostHook"
    /\ log' = Append(log, "PostHook")
    /\ pc' = "done"
    /\ prevDone' = lastDone
    /\ lastDone' = [valid |-> TRUE, run |-> runs, fs |-> fs, objs |-> objs]
    /\ UNCHANGED <<tpl, store, config, env, fs, objs, blend_cache, snippet_cache, err,
                   runs, fs0, captured>>

Next ==
    \/ Construct
    \/ EditStore
    \/ RunCheck
    \/ PreHook
    \/ ReloadState
    \/ CleanTree
    \/ CopyBootloaders
    \/ CopyDistroImages
    \/ RetemplateRepoManifests
    \/ ValidateAndRenderInstallScripts
    \/ Listings
    \/ PerDistro
    \/ PerProfile
    \/ PerSystem
    \/ DHCP
    \/ BootMenu
    \/ PostHook

Spec == Init /\ [][Next]_vars

---------------------------------------------------------------------------
(* Properties of the phase sequence. *)

Last(q) == q[Len(q)]

\* the phases in the order the design gives them
PhaseOrder ==
    <<"PreHook", "ReloadState", "CleanTree", "CopyBootloaders", "CopyDistroImages",
      "RetemplateRepoManifests", "ValidateAndRenderInstallScripts", "Listings",
      "PerDistro", "PerProfile", "PerSystem", "DHCP", "BootMenu", "PostHook">>

\* the same order for a run whose settings switch DHCP management off
OrderFor(settings) ==
    IF settings.manage_dhcp THEN PhaseOrder
    ELSE SelectSeq(PhaseOrder, LAMBDA ph : ph # "DHCP")

Between == {"idle", "check", "done", "failed"}

\* C1: the phases of a run start in the order PreHook, ReloadState,
\* CleanTree, CopyBootloaders, CopyDistroImages, RetemplateRepoManifests,
\* ValidateAndRenderInstallScripts, Listings, PerDistro, PerProfile,
\* PerSystem, DHCP (when DHCP is managed), BootMenu, PostHook: the phases
\* started so far are always a prefix of that order, so each starts at most
\* once and only when all before it have ended; the phase about to start is
\* the next one of the order, and a run that returns has started them all.
C1_PhaseOrder ==
    LET order == OrderFor(objs.settings)
    IN  /\ Len(log) <= Len(order)
        /\ log = SubSeq(order, 1, Len(log))
        /\ pc \notin Between => pc = order[Len(log) + 1]
        /\ pc = "done" => log = order

C1_Witness == pc = "done" /\ log = PhaseOrder

\* C2: fail-fast.  Once a phase has raised, the run is over: no phase is
\* about to start, the failing phase is the last one started, PostHook was
\* not executed, and the run is not recorded as completed.
C2_FailFast ==
    err # NoErr =>
        /\ pc \in {"failed", "idle"}
        /\ "PostHook" \notin Range(log)
        /\ ~(lastDone.valid /\ lastDone.run = runs)

C2_Witness ==
    /\ pc = "failed"
    /\ log # <<>>
    /\ Last(log) = "CopyDistroImages"
    /\ err # NoErr
    /\ err[1] = "kernel not found"

\* C3: when the boot-tree root does not exist as run() is called, the run
\* fails on the precondition before any phase: no phase is started (the
\* pre-hook did not run), the collections are those captured at
\* construction (no reload), and the filesystem is as it was.
C3_Precondition ==
    (pc \notin {"idle", "check"} /\ ~Exists(fs0, tftpboot)) =>
        /\ pc = "failed"
        /\ err = <<"precondition", "tftp">>
        /\ log = <<>>
        /\ fs = fs0
        /\ objs = captured
        /\ config = captured

C3_Witness ==
    /\ pc = "failed"
    /\ ~Exists(fs0, tftpboot)
    /\ Exists(fs, webdir)
    /\ err = <<"precondition", "tftp">>

AfterReload == {PhaseOrder[i] : i \in 3..Len(PhaseOrder)}

\* C9: from CleanTree on, every phase works on the collections as the
\* store holds them after the pre-hook, not on those captured before it.
C9_ReloadVisible ==
    pc \in AfterReload => (objs = store /\ config = store)

C9_Witness ==
    /\ pc \in AfterReload
    /\ objs # captured
    /\ Len(objs.systems) < Len(captured.systems)

---------------------------------------------------------------------------
(* Properties of the generated trees. *)

Files(f) == {p \in DOMAIN f : f[p] # DirMark}

\* the boot-config paths of a system under a distro of either class
BootConfigPaths(system) ==
    UNION {{<<"tftp", "pxelinux.cfg", get_config_filename(system, n)>>,
            Join(tftpboot, ConfName(get_config_filename(system, n)))} :
           n \in DOMAIN system.interfaces}

\* every path that belongs to one system: its boot-config files, its
\* served metadata file, its install script and its repository manifests
SystemPaths(system) ==
    BootConfigPaths(system)
    \cup {<<"web", "systems", system.name>>,
          <<"web", "kickstarts_sys", system.name>>,
          <<"web", "kickstarts_sys", system.name, "ks.cfg">>,
          <<"web", "repos_system", system.name>>,
          <<"web", "repos_system", system.name, RepoFile(RepoNames[1])>>}

\* the files whose lines or records are per system
SharedTables == {dhcpd_conf, dnsmasq_conf, ethers, cobbler_hosts}

\* C8: a system whose profile name matches no loaded profile makes the run
\* abort no later than RetemplateRepoManifests, with a reference error
\* that names the system and the missing profile when that system is the
\* cause, and nothing of that system is written in the run: no path of the
\* system is created or changed, and no DHCP or host table is written.
C8_DanglingSystem ==
    \A i \in DOMAIN objs.systems :
        LET s == objs.systems[i]
        IN  ("ReloadState" \in Range(log) /\ ~HasProfile(objs, s)) =>
                /\ pc \in {"CleanTree", "CopyBootloaders", "CopyDistroImages",
                           "RetemplateRepoManifests", "failed", "idle"}
                /\ (pc = "failed" /\ Last(log) = "RetemplateRepoManifests")
                       => \E j \in DOMAIN objs.systems :
                              /\ ~HasProfile(objs, objs.systems[j])
                              /\ err = <<"reference", objs.systems[j].name,
                                         objs.systems[j].profile>>
                /\ \A p \in SystemPaths(s) \cup SharedTables :
                       p \in DOMAIN fs => (p \in DOMAIN fs0 /\ fs[p] = fs0[p])

C8_Witness ==
    /\ pc = "failed"
    /\ err = <<"reference", "s3", "px">>
    /\ Last(log) = "RetemplateRepoManifests"
    /\ Exists(fs, <<"web", "repos_system", "s1">>)

\* the DHCP file without its generation date
StripDate(f) ==
    [p \in DOMAIN f |->
        IF p \in {dhcpd_conf, dnsmasq_conf} /\ Len(f[p]) >= 2
        THEN [f[p] EXCEPT ![2] = ""] ELSE f[p]]

Successive == prevDone.valid /\ lastDone.valid /\ lastDone.run = prevDone.run + 1

\* C5: idempotence.  When two runs in succession both complete on the
\* same object set and settings (the input files never change), the tree
\* after the second run equals the tree after the first, the generation
\* date in the DHCP file apart.
C5_Idempotence ==
    (pc = "done" /\ Successive /\ lastDone.objs = prevDone.objs) =>
        StripDate(fs) = StripDate(prevDone.fs)

C5_Witness ==
    /\ pc = "done"
    /\ Successive
    /\ lastDone.objs = prevDone.objs
    /\ Len(objs.systems) = 2
    /\ IsFile(fs, dhcpd_conf)
    /\ fs[dhcpd_conf] # prevDone.fs[dhcpd_conf]
    /\ IsFile(fs, <<"web", "kickstarts_sys", "s1", "ks.cfg">>)


\* the addresses and host names that stand for a system in the tables
SystemMarks(system) ==
    UNION {{system.interfaces[n].mac_address, upper(system.interfaces[n].mac_address),
            system.interfaces[n].hostname} : n \in DOMAIN system.interfaces} \ {""}

\* no record or line of the system is in the table
NotInTable(f, table, system) ==
    IsFile(f, table) => \A k \in DOMAIN f[table] : f[table][k] \notin SystemMarks(system)

\* the second of two successive completed runs ran on the object set of
\* the first minus its i-th system
RemovedBetween(i) ==
    /\ pc = "done"
    /\ Successive
    /\ i \in DOMAIN prevDone.objs.systems
    /\ objs = [prevDone.objs EXCEPT !.systems = RemoveAt(prevDone.objs.systems, i)]

\* C4: reconciliation.  After a completed run on S and a completed run on
\* S minus one system, none of that system's paths is left (boot-config
\* files, served metadata, install script, manifests), none of its lines is
\* left in the DHCP and host tables, and every other file of the first
\* run's tree is still there.
C4_Reconciliation ==
    \A i \in 1..(MaxSystems + 1) :
        RemovedBetween(i) =>
            LET s == prevDone.objs.systems[i]
            IN  /\ \A p \in SystemPaths(s) : p \notin DOMAIN fs
                /\ \A t \in SharedTables : NotInTable(fs, t, s)
                /\ \A p \in Files(prevDone.fs) \ SystemPaths(s) : IsFile(fs, p)

\* the same statement for the distros whose boot-config files live in
\* pxelinux.cfg: it holds there
C4_ReconciliationPxelinux ==
    (objs.distros # <<>> /\ objs.distros[1].arch # "ia64") => C4_Reconciliation

C4_Seen ==
    \E i \in 1..MaxSystems :
        /\ RemovedBetween(i)
        /\ prevDone.objs.systems[i] = System1
        /\ IsFile(prevDone.fs, <<"tftp", "pxelinux.cfg", "01-aa-01">>)

\* the tree as CleanTree found it is the tree the run was called on
Cleaned == pc = "CopyBootloaders" /\ Last(log) = "CleanTree"

Subtree(f, p) == Restrict(f, {q \in DOMAIN f : IsPrefix(p, q)})

\* C6: after CleanTree, directly under the web root no file remains whose
\* name does not end in ".py", no directory remains that is not a known
\* one, every purge directory that existed still exists and is empty, and
\* every other known directory is as it was with all below it.
C6_CleanWebRoot ==
    Cleaned =>
        /\ \A p \in Children(fs, webdir) :
               /\ IsFile(fs, p) => endswith_py(Basename(p))
               /\ IsDir(fs, p) => Basename(p) \in KnownDirs
        /\ \A p \in Children(fs0, webdir) :
               /\ (IsDir(fs0, p) /\ Basename(p) \in PurgeDirs)
                      => (IsDir(fs, p) /\ Children(fs, p) = {})
               /\ (IsDir(fs0, p) /\ Basename(p) \in KnownDirs \ PurgeDirs)
                      => Subtree(fs, p) = Subtree(fs0, p)

\* the same with "empty" read as "holding nothing that glob's * matches"
C6_CleanWebRootVisible ==
    Cleaned =>
        /\ \A p \in Children(fs, webdir) :
               /\ IsFile(fs, p) => endswith_py(Basename(p))
               /\ IsDir(fs, p) => Basename(p) \in KnownDirs
        /\ \A p \in Children(fs0, webdir) :
               /\ (IsDir(fs0, p) /\ Basename(p) \in PurgeDirs)
                      => (IsDir(fs, p) /\ glob_star(fs, p) = {})
               /\ (IsDir(fs0, p) /\ Basename(p) \in KnownDirs \ PurgeDirs)
                      => Subtree(fs, p) = Subtree(fs0, p)

BootPurged == {<<"tftp", "pxelinux.cfg">>, <<"tftp", "images">>}

\* C7: under the boot-tree root CleanTree empties pxelinux.cfg and images,
\* keeps the two directories, and leaves every other path as it was.
C7_CleanBootRoot ==
    Cleaned =>
        /\ \A d \in BootPurged : IsDir(fs0, d) => (IsDir(fs, d) /\ Children(fs, d) = {})
        /\ \A p \in DOMAIN fs0 :
               (UnderTftp(p) /\ \A d \in BootPurged : ~(IsPrefix(d, p) /\ p # d))
                   => (p \in DOMAIN fs /\ fs[p] = fs0[p])
        /\ \A p \in DOMAIN fs : UnderTftp(p) => p \in DOMAIN fs0

C7_CleanBootRootVisible ==
    Cleaned =>
        /\ \A d \in BootPurged : IsDir(fs0, d) => (IsDir(fs, d) /\ glob_star(fs, d) = {})
        /\ \A p \in DOMAIN fs0 :
               (UnderTftp(p) /\ \A d \in BootPurged : ~(IsPrefix(d, p) /\ p # d))
                   => (p \in DOMAIN fs /\ fs[p] = fs0[p])
        /\ \A p \in DOMAIN fs : UnderTftp(p) => p \in DOMAIN fs0

\* C10: within a run a cached blended mapping never changes once stored,
\* and the snippet mapping never changes once loaded.
C10_CachesWriteOnce ==
    [][runs' = runs =>
          /\ \A k \in DOMAIN blend_cache :
                 k \in DOMAIN blend_cache' /\ blend_cache'[k] = blend_cache[k]
          /\ snippet_cache' = snippet_cache]_vars

\* the snippet half of it holds
C10_SnippetsWriteOnce == [][runs' = runs => snippet_cache' = snippet_cache]_vars


---------------------------------------------------------------------------
(* Properties of the blended mappings. *)

MappingFields == {"kernel_options", "ks_meta"}

\* the value of key k of a mapping-valued field, most specific level first
MostSpecific(f, k, s, p, d) ==
    IF k \in DOMAIN s[f] THEN s[f][k]
    ELSE IF k \in DOMAIN p[f] THEN p[f][k] ELSE d[f][k]

Precedence(o, s, b) ==
    LET p == ProfileOf(o, s)
        d == DistroOf(o, p)
    IN  /\ b.name = s.name
        /\ b.kickstart = p.kickstart
        /\ \A f \in MappingFields :
               /\ DOMAIN b[f] = DOMAIN s[f] \cup DOMAIN p[f] \cup DOMAIN d[f]
               /\ \A k \in DOMAIN b[f] : b[f][k] = MostSpecific(f, k, s, p, d)

---------------------------------------------------------------------------
(* apply_template, followed pass by pass.  A text is a sequence of tokens  *)
(* (pieces of a string that the passes tell apart); NL is the newline.     *)

\* number of lines of the source text handed to apply_template
MaxLines == 2

NL == "\n"

\* str.split("\n"): the text between the newlines, one more than newlines
RECURSIVE SplitFrom(_, _)
SplitFrom(text, line) ==
    IF text = <<>> THEN <<line>>
    ELSE IF Head(text) = NL THEN <<line>> \o SplitFrom(Tail(text), <<>>)
    ELSE SplitFrom(Tail(text), Append(line, Head(text)))

split(text) == SplitFrom(text, <<>>)

\* str.replace within one token: old is the token, or the token begins
\* with old and what follows old stays
replace_in(token, old, new) ==
    CASE token = old -> new
      [] token = "SNIPPET::network" /\ old = "SNIPPET::net" -> new \o <<"work">>
      [] OTHER -> <<token>>

\* str.replace(old, new): every occurrence, left to right, new not rescanned
RECURSIVE replace(_, _, _)
replace(text, old, new) ==
    IF text = <<>> THEN <<>>
    ELSE replace_in(Head(text), old, new) \o replace(Tail(text), old, new)

\* the tokens that begin with the character "#"
HashTokens == {"#", "#hdr", "#if", "#url --url=", "#errorCatcher Echo"}

\* line.startswith("#")
startswith_hash(line) == line # <<>> /\ Head(line) \in HashTokens

\* the names a snippet marker or an @@ token can carry
SnippetNames == {"a", "b", "zz", "net", "network"}

\* "SNIPPET::%s" % x
Marker(x) ==
    CASE x = "a" -> "SNIPPET::a" [] x = "b" -> "SNIPPET::b"
      [] x = "net" -> "SNIPPET::net" [] x = "network" -> "SNIPPET::network"
      [] OTHER -> "SNIPPET::zz"

MetaKeys == {"k", "j", "n", "tree"}

\* "@@%s@@" % x
AtToken(x) ==
    CASE x = "k" -> "@@k@@" [] x = "j" -> "@@j@@" [] x = "n" -> "@@n@@"
      [] x = "tree" -> "@@tree@@" [] OTHER -> "@@u@@"

\* data.replace("TEMPLATE::", "$")
legacy_rewrite(data) == replace(data, "TEMPLATE::", <<"$">>)

\* the inner loop over the snippet cache, in the order the dict yields its
\* keys; the comment test is made again before every replacement
RECURSIVE inline_line(_, _, _)
inline_line(line, cache, names) ==
    IF names = <<>> THEN line
    ELSE inline_line(
             IF ~startswith_hash(line)
             THEN replace(line, Marker(Head(names)), cache[Head(names)])
             ELSE line,
             cache, Tail(names))

\* newdata = "\n".join((newdata, line)) for every line of data
RECURSIVE inline_lines(_, _, _)
inline_lines(lines, cache, names) ==
    IF lines = <<>> THEN <<>>
    ELSE <<NL>> \o inline_line(Head(lines), cache, names)
         \o inline_lines(Tail(lines), cache, names)

inline_snippets(data, cache, names) == inline_lines(split(data), cache, names)

\* a metadata value: a str or not, and its text (str(value) when not a str)
Value(is_str, val) == [is_str |-> is_str, val |-> val]

\* metadata["tree"].startswith("nfs://")
startswith_nfs(tree) == tree \in {"nfs://srv:/mnt", "nfs://srv"}

\* metadata["tree"][6:].split(":", 2) unpacked into (server, dir); an empty
\* tuple when the unpacking raises
nfs_parts(tree) == IF tree = "nfs://srv:/mnt" THEN <<"srv", "/mnt">> ELSE <<>>

\* line.find("--url") != -1
HasDashUrl == {"--url=", "--url ", "#url --url="}

\* line.find("url ") != -1
HasUrlSpace == {"url ", "--url ", "#url --url="}

\* a slip: one of the two finds is enough
is_url_line_either(line) ==
    \/ \E i \in DOMAIN line : line[i] \in HasDashUrl
    \/ \E i \in DOMAIN line : line[i] \in HasUrlSpace

is_url_line(line) ==
    /\ \E i \in DOMAIN line : line[i] \in HasDashUrl
    /\ \E i \in DOMAIN line : line[i] \in HasUrlSpace

\* "nfs --server %s --dir %s" % (server, dir), "\n", "#url --url=%s" % tree
nfs_lines(tree) ==
    <<"nfs --server ", nfs_parts(tree)[1], " --dir ", nfs_parts(tree)[2],
      NL, "#url --url=", tree>>

\* newdata = newdata + line + "\n" for every line; the first line that
\* cannot be rewritten raises
RECURSIVE rewrite_lines(_, _)
rewrite_lines(lines, tree) ==
    IF lines = <<>> THEN [data |-> <<>>, err |-> NoErr]
    ELSE IF is_url_line(Head(lines)) /\ nfs_parts(tree) = <<>>
         THEN [data |-> <<>>, err |-> <<"nfs", tree>>]
    ELSE LET rest == rewrite_lines(Tail(lines), tree)
             line == IF is_url_line(Head(lines)) THEN nfs_lines(tree) ELSE Head(lines)
         IN  [data |-> line \o <<NL>> \o rest.data, err |-> rest.err]

transport_rewrite(data, metadata) ==
    IF "tree" \in DOMAIN metadata /\ startswith_nfs(metadata["tree"].val[1])
    THEN rewrite_lines(split(data), metadata["tree"].val[1])
    ELSE [data |-> data, err |-> NoErr]

\* directives the engine cannot compile
BadDirectives == {"#if"}

\* str(Template(source, searchList=[metadata])): a placeholder "$" name is
\* replaced by str() of the value the search list has for the name and is
\* echoed when it has none; inserted text is not scanned again
RECURSIVE fill_placeholders(_, _)
fill_placeholders(text, metadata) ==
    IF text = <<>> THEN <<>>
    ELSE IF Head(text) = "$" /\ Len(text) > 1 /\ text[2] \in DOMAIN metadata
         THEN metadata[text[2]].val \o fill_placeholders(Tail(Tail(text)), metadata)
    ELSE <<Head(text)>> \o fill_placeholders(Tail(text), metadata)

\* "#errorCatcher Echo\n" + data, then the engine; the directive line
\* itself yields no output
evaluate(data, metadata) ==
    LET source == <<"#errorCatcher Echo", NL>> \o data
    IN  IF \E i \in DOMAIN source : source[i] \in BadDirectives
        THEN [data |-> data, err |-> <<"template", "ParseError">>]
        ELSE [data |-> fill_placeholders(Tail(Tail(source)), metadata), err |-> NoErr]

\* for x in metadata: if type(metadata[x]) == str: replace("@@%s@@" % x, ...)
RECURSIVE post_substitute(_, _, _)
post_substitute(data_out, metadata, keys) ==
    IF keys = <<>> THEN data_out
    ELSE post_substitute(
             IF metadata[Head(keys)].is_str
             THEN replace(data_out, AtToken(Head(keys)), metadata[Head(keys)].val)
             ELSE data_out,
             metadata, Tail(keys))


\* the lines a source text is made of
SourceLines ==
    {<<"SNIPPET::a">>, <<"#", "SNIPPET::a">>, <<"SNIPPET::zz", "@@u@@">>,
     <<"SNIPPET::b", "SNIPPET::a">>, <<"@@k@@", "@@n@@">>, <<"url ", "TEMPLATE::", "k">>,
     <<"url ", "--url=", "$", "tree">>, <<"#if">>, <<"SNIPPET::network">>}

\* "\n".join(lines)
RECURSIVE join_lines(_)
join_lines(lines) ==
    IF Len(lines) = 1 THEN lines[1]
    ELSE lines[1] \o <<NL>> \o join_lines(Tail(lines))

SourceTexts ==
    {join_lines(ls) : ls \in UNION {[1..n -> SourceLines] : n \in 1..MaxLines}}

\* the snippets directory as load_snippet_cache reads it
Snippets == ("a" :> <<"part", "@@k@@">>) @@ ("b" :> <<"#hdr", NL, "clearpart">>)

\* a snippets directory with two files, the name of one beginning with the
\* name of the other
PrefixSnippets == ("net" :> <<"dhcp">>) @@ ("network" :> <<"network --bootproto">>)

\* the orders in which the dict can yield its keys
SnippetOrders == {<<"a", "b">>, <<"b", "a">>, <<"net", "network">>, <<"network", "net">>}

TreeValues == {"http://srv/t", "nfs://srv:/mnt", "nfs://srv"}

Metadata(k, with_tree, tree) ==
    LET base == ("k" :> Value(TRUE, k)) @@ ("j" :> Value(TRUE, <<"w">>))
                @@ ("n" :> Value(FALSE, <<"7">>))
    IN  IF with_tree THEN base @@ ("tree" :> Value(TRUE, <<tree>>)) ELSE base

Metadatas ==
    {Metadata(k, wt, t) : k \in {<<"v">>, <<"@@j@@">>}, wt \in BOOLEAN, t \in TreeValues}

\* the orders in which the metadata dict can yield its keys
KeyOrders(metadata) ==
    {SelectSeq(o, LAMBDA x : x \in DOMAIN metadata) :
        o \in {<<"k", "j", "n", "tree">>, <<"tree", "n", "j", "k">>}}

None == <<"None">>

\* where a caller has a text written: nowhere, over a file that exists, to
\* a directory that does not exist yet
OutPaths ==
    {None, <<"web", "kickstarts", "p1", "ks.cfg">>, <<"web", "kickstarts", "p2", "ks.cfg">>}

RenderTree ==
    Tree({webdir, <<"web", "kickstarts">>, <<"web", "kickstarts", "p1">>},
         (<<"web", "kickstarts", "p1", "ks.cfg">> :> <<"old">>))

Call(source, metadata, keys, names, out_path) ==
    [source |-> source, metadata |-> metadata, keys |-> keys, names |-> names,
     out_path |-> out_path, data |-> source, passes |-> <<>>, stages |-> <<>>]

RenderInit ==
    /\ store = ObjectSet("x86", <<Profile1>>, <<>>, FALSE)
    /\ config = store
    /\ env = HealthyEnv
    /\ objs = store
    /\ fs = RenderTree
    /\ fs0 = fs
    /\ blend_cache = <<>>
    /\ snippet_cache \in {Snippets, PrefixSnippets}
    /\ pc = "legacy"
    /\ log = <<>>
    /\ err = NoErr
    /\ runs = 1
    /\ captured = store
    /\ lastDone = NoRun
    /\ prevDone = NoRun
    /\ \E source \in SourceTexts, metadata \in Metadatas, names \in SnippetOrders,
          out_path \in OutPaths :
           \E keys \in KeyOrders(metadata) :
               /\ Range(names) = DOMAIN snippet_cache
               /\ tpl = Call(source, metadata, keys, names, out_path)

\* a slip: the literal substitution is made before the snippets are inlined
NextPassPostFirst(pass) ==
    CASE pass = "legacy" -> "post"
      [] pass = "post" -> "snippets"
      [] pass = "snippets" -> "transport"
      [] pass = "transport" -> "engine"
      [] pass = "engine" -> "write"
      [] OTHER -> "returned"

\* the statement order of apply_template
NextPass(pass) ==
    CASE pass = "legacy" -> "snippets"
      [] pass = "snippets" -> "transport"
      [] pass = "transport" -> "engine"
      [] pass = "engine" -> "post"
      [] pass = "post" -> "write"
      [] OTHER -> "returned"

\* one pass over the whole text: it ends with the text out.data or raises
Pass(pass, out) ==
    /\ pc = pass
    /\ tpl' = [tpl EXCEPT !.data = out.data, !.passes = Append(@, pass),
                          !.stages = Append(@, tpl.data)]
    /\ err' = out.err
    /\ pc' = IF out.err # NoErr THEN "raised" ELSE NextPass(pass)
    /\ UNCHANGED <<store, config, env, fs, objs, blend_cache, snippet_cache, log,
                   runs, fs0, captured, lastDone, prevDone>>

Clean(data) == [data |-> data, err |-> NoErr]

LegacyRewrite == Pass("legacy", Clean(legacy_rewrite(tpl.data)))

InlineSnippets ==
    Pass("snippets", Clean(inline_snippets(tpl.data, snippet_cache, tpl.names)))

TransportRewrite == Pass("transport", transport_rewrite(tpl.data, tpl.metadata))

Evaluate == Pass("engine", evaluate(tpl.data, tpl.metadata))

PostSubstitute ==
    Pass("post", Clean(post_substitute(tpl.data, tpl.metadata, tpl.keys)))

\* a slip: the text is written whether or not a path was given
write_out_always(st, out_path, data_out) ==
    apply_template_to(st, IF out_path = None THEN <<"web", "None">> ELSE out_path,
                      data_out)

\* if out_path is not None: mkdir, open, write, close; return data_out
write_out(st, out_path, data_out) ==
    IF out_path = None THEN st ELSE apply_template_to(st, out_path, data_out)

WriteOut ==
    /\ pc = "write"
    /\ LET st1 == write_out(St, tpl.out_path, tpl.data)
       IN  /\ fs' = st1.fs
           /\ err' = st1.err
           /\ pc' = IF st1.err # NoErr THEN "raised" ELSE "returned"
    /\ tpl' = [tpl EXCEPT !.passes = Append(@, "write"),
                          !.stages = Append(@, tpl.data)]
    /\ UNCHANGED <<store, config, env, objs, blend_cache, snippet_cache, log,
                   runs, fs0, captured, lastDone, prevDone>>

RenderNext ==
    \/ LegacyRewrite
    \/ InlineSnippets
    \/ TransportRewrite
    \/ Evaluate
    \/ PostSubstitute
    \/ WriteOut

RenderSpec == RenderInit /\ [][RenderNext]_vars


---------------------------------------------------------------------------
(* Properties of apply_template (specification RenderSpec). *)

PassOrder == <<"legacy", "snippets", "transport", "engine", "post", "write">>

\* the text pass number n was given, and the text it left
Given(n) == tpl.stages[n]

Left(n) == IF n < Len(tpl.stages) THEN tpl.stages[n + 1] ELSE tpl.data

\* pass number n has run to its end
Completed(n) == Len(tpl.passes) >= n /\ (Len(tpl.passes) = n => pc # "raised")

\* what an @@k@@ token of the host document has become in the returned text
HostValue(x) == post_substitute(<<AtToken(x)>>, tpl.metadata, tpl.keys)

\* C12: the passes run in the order legacy rewrite, snippet inlining,
\* transport rewrite, engine, literal substitution (then the write), each
\* on the text the pass before it left; so in the returned text the @@k@@
\* that came in with snippet a (after its word "part") has become what an
\* @@k@@ of the host document becomes, and no @@k@@ is left.
C12_PassOrder ==
    /\ tpl.passes = SubSeq(PassOrder, 1, Len(tpl.passes))
    /\ pc \notin {"raised", "returned"} => pc = PassOrder[Len(tpl.passes) + 1]
    /\ Len(tpl.stages) >= 1 => Given(1) = tpl.source
    /\ pc = "returned" =>
           /\ AtToken("k") \notin Range(tpl.data)
           /\ \A i \in DOMAIN tpl.data :
                  tpl.data[i] = "part" =>
                      /\ i + Len(HostValue("k")) <= Len(tpl.data)
                      /\ SubSeq(tpl.data, i + 1, i + Len(HostValue("k")))
                             = HostValue("k")

C12_Witness ==
    /\ pc = "returned"
    /\ "SNIPPET::a" \in Range(tpl.source)
    /\ "@@k@@" \in Range(tpl.source)
    /\ "part" \in Range(tpl.data)

\* every marker of a line whose name is a key of the cache replaced by the
\* fragment, all at once; other tokens kept
RECURSIVE inlined(_, _)
inlined(line, cache) ==
    IF line = <<>> THEN <<>>
    ELSE (IF \E x \in DOMAIN cache : Head(line) = Marker(x)
          THEN cache[CHOOSE x \in DOMAIN cache : Head(line) = Marker(x)]
          ELSE <<Head(line)>>)
         \o inlined(Tail(line), cache)

RECURSIVE expected_inlining(_, _)
expected_inlining(lines, cache) ==
    IF lines = <<>> THEN <<>>
    ELSE <<NL>> \o (IF startswith_hash(Head(lines)) THEN Head(lines)
                    ELSE inlined(Head(lines), cache))
         \o expected_inlining(Tail(lines), cache)

\* C13: the snippet pass leaves every comment line as it was and, in every
\* other line, every marker whose name is in the cache replaced by the
\* fragment's full text, markers with other names untouched; it does not
\* raise.
C13_SnippetInlining ==
    Completed(2) => Left(2) = expected_inlining(split(Given(2)), snippet_cache)

\* the same when the dict yields a before b
C13_SnippetInliningOrdered ==
    tpl.names = <<"a", "b">> => C13_SnippetInlining

\* every @@key@@ of a str-valued key replaced by the value, all at once
RECURSIVE substituted(_, _)
substituted(text, metadata) ==
    IF text = <<>> THEN <<>>
    ELSE (IF \E x \in DOMAIN metadata : metadata[x].is_str /\ Head(text) = AtToken(x)
          THEN metadata[CHOOSE x \in DOMAIN metadata :
                            metadata[x].is_str /\ Head(text) = AtToken(x)].val
          ELSE <<Head(text)>>)
         \o substituted(Tail(text), metadata)

\* C14: in the text the literal substitution leaves, every @@key@@ of a key
\* with a str value stands replaced by exactly that value, the value itself
\* untouched by the substitution of other keys; the tokens of keys with
\* other values and of unknown names are as they were.
C14_LiteralSubstitution ==
    Completed(5) => Left(5) = substituted(Given(5), tpl.metadata)

\* the same when no value holds a token of another key
C14_LiteralSubstitutionPlain ==
    (\A x \in DOMAIN tpl.metadata :
         \A i \in DOMAIN tpl.metadata[x].val :
             \A y \in MetaKeys : tpl.metadata[x].val[i] # AtToken(y))
        => C14_LiteralSubstitution

\* the line that stands for a URL line when the tree is nfs://srv:/mnt
RECURSIVE expected_rewrite(_, _)
expected_rewrite(lines, tree) ==
    IF lines = <<>> THEN <<>>
    ELSE (IF (\E i \in DOMAIN Head(lines) : Head(lines)[i] \in {"--url=", "--url "})
              /\ (\E i \in DOMAIN Head(lines) : Head(lines)[i] \in {"url ", "--url "})
          THEN <<"nfs --server ", "srv", " --dir ", "/mnt", NL, "#url --url=", tree>>
          ELSE Head(lines))
         \o <<NL>> \o expected_rewrite(Tail(lines), tree)

HasNfsTree ==
    "tree" \in DOMAIN tpl.metadata /\ tpl.metadata["tree"].val = <<"nfs://srv:/mnt">>

HasOtherTree ==
    "tree" \notin DOMAIN tpl.metadata \/ tpl.metadata["tree"].val = <<"http://srv/t">>

\* C15: with an install tree nfs://S:D the transport pass turns every line
\* that holds both "--url" and "url " into "nfs --server S --dir D" followed
\* by the line "#url --url=<tree>" and keeps every other line, in order;
\* with no tree or a tree of another form it leaves the text as it was.
C15_TransportRewrite ==
    Completed(3) =>
        /\ HasNfsTree => Left(3) = expected_rewrite(split(Given(3)), "nfs://srv:/mnt")
        /\ HasOtherTree => Left(3) = Given(3)

C15_Witness ==
    /\ pc = "returned"
    /\ HasNfsTree
    /\ "url " \in Range(tpl.source)
    /\ "nfs --server " \in Range(tpl.data)
    /\ "part" \in Range(tpl.data)

\* C16: when apply_template has returned with an output path, the file at
\* the path holds exactly the returned text and no other file has changed;
\* when it has returned without a path, or a pass has raised, the
\* filesystem is as it was.
C16_OutputHandling ==
    /\ (pc = "returned" /\ tpl.out_path # None) =>
           /\ IsFile(fs, tpl.out_path) /\ fs[tpl.out_path] = tpl.data
           /\ \A p \in Files(fs0) \ {tpl.out_path} : IsFile(fs, p) /\ fs[p] = fs0[p]
           /\ Files(fs) \ {tpl.out_path} \subseteq Files(fs0)
    /\ (pc = "returned" /\ tpl.out_path = None) => fs = fs0
    /\ pc = "raised" => fs = fs0

C16_Witness ==
    /\ pc = "returned"
    /\ tpl.out_path = <<"web", "kickstarts", "p1", "ks.cfg">>
    /\ fs0[tpl.out_path] = <<"old">>
    /\ fs[tpl.out_path] = tpl.data
    /\ "old" \notin Range(fs[tpl.out_path])


---------------------------------------------------------------------------
(* Properties of the DHCP file and the host tables (specification Spec). *)

\* the DHCP phase of the current run has just ended without an exception
DhcpDone == pc = "BootMenu" /\ Last(log) = "DHCP"

DhcpFile == fs[settings_file(objs.settings.manage_dhcp_mode)]

\* a system without its interfaces that have no MAC
WithoutMacless(system) ==
    [system EXCEPT !.interfaces =
        [n \in {m \in DOMAIN system.interfaces :
                    system.interfaces[m].mac_address # ""} |-> system.interfaces[n]]]

Macless(interface) == interface.mac_address = ""

\* the addresses and host names of the interfaces without / with a MAC
Marks(ifs, macless) ==
    UNION {{ifs[n].interface.ip_address, ifs[n].interface.hostname} :
              n \in {m \in DOMAIN ifs : Macless(ifs[m].interface) = macless}} \ {""}

MaclessMarks == Marks(AllIfaces(objs.systems), TRUE)

MacMarks == Marks(AllIfaces(objs.systems), FALSE)

\* C17: when the DHCP phase has ended, the DHCP file and both host tables
\* are what they would be had the interfaces without a MAC not existed:
\* nothing of such an interface (its IP address, its host name) is in any
\* of the three files, and the phase has ended without an exception.
C17_MaclessSkipped ==
    DhcpDone =>
        LET stripped == [objs EXCEPT !.systems =
                            [n \in DOMAIN objs.systems |-> WithoutMacless(objs.systems[n])]]
            ifs == AllIfaces(stripped.systems)
        IN  /\ err = NoErr
            /\ DhcpFile = dhcp_text(stripped, Date(runs))
            /\ fs[ethers] = <<"ethers">> \o ethers_lines(ifs)
            /\ fs[cobbler_hosts] = <<"hosts">> \o hosts_lines(ifs)
            /\ \A t \in {DhcpFile, fs[ethers], fs[cobbler_hosts]} :
                   \A k \in DOMAIN t : t[k] \notin MaclessMarks \ MacMarks

C17_Witness ==
    /\ DhcpDone
    /\ \E n \in DOMAIN objs.systems : objs.systems[n] = System1
    /\ "10.0.0.9" \in MaclessMarks
    /\ "10.0.0.1" \in Range(fs[ethers])


Count(text, tok) == Cardinality({k \in DOMAIN text : text[k] = tok})

\* where the variable of the bucket of tag lab begins in the DHCP file
LabMarker == CHOOSE k \in DOMAIN DhcpFile : DhcpFile[k] = "insert_cobbler_system_definitions_lab"

\* position k of the DHCP file lies in the bucket of the tag
InBucket(k, dhcp_tag) == IF dhcp_tag = "" THEN k < LabMarker ELSE k > LabMarker

\* the interfaces with a MAC, over all systems
WithMac == {n \in DOMAIN AllIfaces(objs.systems) :
               ~Macless(AllIfaces(objs.systems)[n].interface)}

ArchOf(x) == DistroOf(objs, ProfileOf(objs, x.system)).arch

\* the interfaces the dnsmasq branch writes a line for
Tagged == {n \in WithMac :
              /\ AllIfaces(objs.systems)[n].interface.ip_address # ""
              /\ ArchOf(AllIfaces(objs.systems)[n]) = "ia64"}

\* the records of the DHCP file, of either shape
Records == Count(DhcpFile, "host") + Count(DhcpFile, "dhcp-host=net:ia64")

\* C18 as stated: every interface with a MAC has exactly one record in the
\* DHCP file, whatever the manager mode, in the bucket of its dhcp tag.
C18_OneRecordPerMac ==
    DhcpDone =>
        /\ Records = Cardinality(WithMac)
        /\ \A n \in WithMac :
               LET i == AllIfaces(objs.systems)[n].interface
               IN  objs.settings.manage_dhcp_mode = "isc" =>
                       \E k \in DOMAIN DhcpFile :
                           /\ DhcpFile[k] = i.mac_address
                           /\ InBucket(k, i.dhcp_tag)

\* C18, amended: under the isc manager every interface with a MAC has
\* exactly one host record, in the bucket of its dhcp tag (the default
\* bucket for the empty tag), the default bucket under the variable
\* insert_cobbler_system_definitions and the bucket of tag T under
\* insert_cobbler_system_definitions_T; under dnsmasq a line is written
\* only for an interface with a MAC and an IP address whose distro is
\* ia64, and none for the others.
C18_ReservationRecords ==
    DhcpDone =>
        /\ DhcpFile[3] = "insert_cobbler_system_definitions"
        /\ Count(DhcpFile, "insert_cobbler_system_definitions_lab") = 1
        /\ LabMarker > 3
        /\ objs.settings.manage_dhcp_mode = "isc" =>
               /\ Records = Cardinality(WithMac)
               /\ \A n \in WithMac :
                      LET i == AllIfaces(objs.systems)[n].interface
                      IN  /\ Count(DhcpFile, i.mac_address) = 1
                          /\ \A k \in DOMAIN DhcpFile :
                                 DhcpFile[k] = i.mac_address =>
                                     /\ DhcpFile[k - 1] = "hardware ethernet"
                                     /\ InBucket(k, i.dhcp_tag)
        /\ objs.settings.manage_dhcp_mode = "dnsmasq" =>
               /\ Records = Cardinality(Tagged)
               /\ \A n \in Tagged :
                      LET i == AllIfaces(objs.systems)[n].interface
                      IN  \A k \in DOMAIN DhcpFile :
                              DhcpFile[k] = i.ip_address =>
                                  /\ DhcpFile[k - 1] = "dhcp-host=net:ia64"
                                  /\ InBucket(k, i.dhcp_tag)
               /\ \A n \in WithMac \ Tagged :
                      LET i == AllIfaces(objs.systems)[n].interface
                      IN  /\ i.mac_address \notin Range(DhcpFile)
                          /\ i.ip_address \notin Range(DhcpFile)

C18_Witness ==
    /\ DhcpDone
    /\ objs.settings.manage_dhcp_mode = "isc"
    /\ objs.systems = <<System2, System1>>
    /\ \E k \in DOMAIN DhcpFile : DhcpFile[k] = "bb:02" /\ k > LabMarker
    /\ \E k \in DOMAIN DhcpFile : DhcpFile[k] = "aa:01" /\ k < LabMarker


\* one line <<left, right>> for every interface that has both fields (and a
\* MAC when need_mac), in the order of the interfaces
RECURSIVE lines_of(_, _, _, _)
lines_of(ifs, left, right, need_mac) ==
    IF ifs = <<>> THEN <<>>
    ELSE LET i == Head(ifs).interface
         IN  (IF i[left] # "" /\ i[right] # "" /\ (need_mac => i.mac_address # "")
              THEN <<IF left = "mac_address" THEN upper(i[left]) ELSE i[left], i[right]>>
              ELSE <<>>)
             \o lines_of(Tail(ifs), left, right, need_mac)

\* C19 as stated: after the DHCP phase the MAC->IP table has exactly one
\* line for each interface with MAC and IP, the IP->hostname table exactly
\* one line for each interface with IP and hostname, and no other lines.
C19_BothFieldsPopulated ==
    DhcpDone =>
        /\ fs[ethers] = <<"ethers">>
               \o lines_of(AllIfaces(objs.systems), "mac_address", "ip_address", FALSE)
        /\ fs[cobbler_hosts] = <<"hosts">>
               \o lines_of(AllIfaces(objs.systems), "ip_address", "hostname", FALSE)

\* C19, amended: after the DHCP phase the MAC->IP table has exactly one
\* line for each interface with MAC and IP, the IP->hostname table exactly
\* one line for each interface with MAC, IP and hostname, and no other
\* lines.
C19_HostTables ==
    DhcpDone =>
        /\ fs[ethers] = <<"ethers">>
               \o lines_of(AllIfaces(objs.systems), "mac_address", "ip_address", TRUE)
        /\ fs[cobbler_hosts] = <<"hosts">>
               \o lines_of(AllIfaces(objs.systems), "ip_address", "hostname", TRUE)

C19_Witness ==
    /\ DhcpDone
    /\ objs.systems = <<System1, System2>>
    /\ fs[ethers] = <<"ethers", "AA:01", "10.0.0.1">>
    /\ fs[cobbler_hosts] = <<"hosts", "10.0.0.1", "h1">>


---------------------------------------------------------------------------
(* Properties of the boot menu (specification Spec). *)

MenuFile == fs[<<"tftp", "pxelinux.cfg", "default">>]

\* the profile names of the menu entries, in the order of the file
RECURSIVE EntryNames(_)
EntryNames(text) ==
    IF text = <<>> THEN <<>>
    ELSE (IF Head(text) = "pxe" THEN <<text[3]>> ELSE <<>>) \o EntryNames(Tail(text))

MenuDone == pc = "PostHook" /\ Last(log) = "BootMenu"

\* C20: the aggregated menu file default, which BootMenu writes unless a
\* system is named default, has one entry per Profile, in ascending order of
\* Profile name, whatever the order of the Profiles in the store.
C20_MenuOrder ==
    (MenuDone /\ find(objs.systems, "default") = <<>>) =>
        LET names == EntryNames(MenuFile)
        IN  /\ Len(names) = Len(objs.profiles)
            /\ Range(names) = {objs.profiles[n].name : n \in DOMAIN objs.profiles}
            /\ \A a, b \in DOMAIN names : a < b => NameRank(names[a]) < NameRank(names[b])

C20_Witness ==
    /\ MenuDone
    /\ find(objs.systems, "default") = <<>>
    /\ objs.profiles = <<Profile2, Profile1>>
    /\ EntryNames(MenuFile) = <<"p1", "p2">>


---------------------------------------------------------------------------
(* Properties of the error paths (specification Spec). *)

\* the run ended with the render of an install script raising
RenderFailed == err # NoErr /\ err[1] = "render"

ProfileScript(name) == <<"web", "kickstarts", name, "ks.cfg">>

SystemScript(name) == <<"web", "kickstarts_sys", name, "ks.cfg">>

\* the objects validate_kickstarts comes to after the one named
LaterScripts(name) ==
    {ProfileScript(objs.profiles[j].name) :
        j \in {m \in DOMAIN objs.profiles :
                  \E i \in DOMAIN objs.profiles :
                      objs.profiles[i].name = name /\ i < m}}
    \cup {SystemScript(objs.systems[j].name) :
            j \in {m \in DOMAIN objs.systems :
                      \/ \E i \in DOMAIN objs.profiles : objs.profiles[i].name = name
                      \/ \E i \in DOMAIN objs.systems :
                             objs.systems[i].name = name /\ i < m}}

\* the profiles whose install script is a local file the engine cannot render
RenderDue ==
    {i \in DOMAIN objs.profiles :
        env.ks = "bad" /\ startswith_slash(objs.profiles[i].kickstart)}

\* C21: when the render of an install script raises, the run has failed in
\* ValidateAndRenderInstallScripts: no install script of an object that
\* comes after the failing one exists, no later phase (BuildTree, DHCP,
\* BootMenu, PostHook) has started, and the run is not recorded as done.
C21_RenderFatal ==
    (RenderDue # {} /\ "ValidateAndRenderInstallScripts" \in Range(log)) =>
        /\ RenderFailed
        /\ \E i \in RenderDue :
               err[2] = objs.profiles[i].name /\ \A j \in RenderDue : i <= j
        /\ pc \in {"failed", "idle"}
        /\ Last(log) = "ValidateAndRenderInstallScripts"
        /\ \A p \in LaterScripts(err[2]) : p \notin DOMAIN fs
        /\ ~(lastDone.valid /\ lastDone.run = runs)

C21_Witness ==
    /\ RenderFailed
    /\ pc = "failed"
    /\ err[2] = "p1"
    /\ objs.systems = <<System1, System2>>
    /\ SystemScript("s1") \in LaterScripts("p1")

\* the kernel or the initrd of the distros cannot be located
ImageMissing == ~env.kernel \/ ~env.initrd

\* the images of distro d in either output root
ImagePaths(d) ==
    {Join(Join(Join(root, "images"), d.name), Basename(f)) :
        root \in {tftpboot, webdir}, f \in {d.kernel, d.initrd}}

\* C22: when the kernel or the initrd of a distro cannot be located,
\* CopyDistroImages fails with an error that names the file and the distro
\* and the run ends there: neither image of that distro is in either output
\* root, no later distro has an image directory, and no later phase starts.
C22_MissingImageFatal ==
    (ImageMissing /\ "CopyDistroImages" \in Range(log)) =>
        /\ err = <<IF ~env.kernel THEN "kernel not found" ELSE "initrd not found",
                   Basename(IF ~env.kernel THEN objs.distros[1].kernel
                            ELSE objs.distros[1].initrd),
                   objs.distros[1].name>>
        /\ pc \in {"failed", "idle"}
        /\ Last(log) = "CopyDistroImages"
        /\ \A p \in ImagePaths(objs.distros[1]) : p \notin DOMAIN fs
        /\ \A i \in DOMAIN objs.distros : i > 1 =>
               \A root \in {tftpboot, webdir} :
                   Join(Join(root, "images"), objs.distros[i].name) \notin DOMAIN fs
        /\ ~(lastDone.valid /\ lastDone.run = runs)

C22_Witness ==
    /\ ~env.initrd
    /\ env.kernel
    /\ pc = "failed"
    /\ err # NoErr
    /\ err[1] = "initrd not found"
    /\ Len(objs.distros) = 2
    /\ Exists(fs, <<"tftp", "images", "d1">>)


\* the repositories of a profile, and of a system through its profile
ReposOf(kind, obj) ==
    IF kind = "profile" THEN obj.repos
    ELSE IF HasProfile(objs, obj) THEN ProfileOf(objs, obj).repos ELSE <<>>

MirrorInput(repo) == <<"web", "repo_mirror", repo, "config.repo">>

Manifest(kind, name, repo) ==
    <<"web", IF kind = "profile" THEN "repos_profile" ELSE "repos_system", name,
      RepoFile(repo)>>

\* the manifest of every repository of the object is there exactly when the
\* input of the repository can be opened
ManifestsMatchInputs(kind, obj) ==
    \A i \in DOMAIN ReposOf(kind, obj) :
        LET repo == ReposOf(kind, obj)[i]
        IN  IF IsFile(fs, MirrorInput(repo))
            THEN /\ IsFile(fs, Manifest(kind, obj.name, repo))
                 /\ fs[Manifest(kind, obj.name, repo)] =
                        <<"repo", repo, obj.name, objs.settings.server>>
            ELSE Manifest(kind, obj.name, repo) \notin DOMAIN fs

\* RetemplateRepoManifests is the phase that ran last
RetemplateDone == log # <<>> /\ Last(log) = "RetemplateRepoManifests"

AllResolve == \A i \in DOMAIN objs.systems : HasProfile(objs, objs.systems[i])

\* C23: a repository whose manifest input cannot be opened is passed over
\* in RetemplateRepoManifests: the phase raises nothing and writes no
\* manifest for it, the manifests of the other repositories of the object
\* and of the other objects are rendered, and the run goes on to the next
\* phase.
C23_MissingManifestSkipped ==
    (RetemplateDone /\ AllResolve) =>
        /\ err = NoErr
        /\ pc = "ValidateAndRenderInstallScripts"
        /\ \A i \in DOMAIN objs.profiles :
               ManifestsMatchInputs("profile", objs.profiles[i])
        /\ \A i \in DOMAIN objs.systems :
               ManifestsMatchInputs("system", objs.systems[i])

C23_Witness ==
    /\ RetemplateDone
    /\ objs.profiles = <<Profile2, Profile1>>
    /\ objs.systems = <<System1, System2>>
    /\ ~IsFile(fs, MirrorInput("r2"))
    /\ Manifest("profile", "p1", "r2") \notin DOMAIN fs
    /\ IsFile(fs, Manifest("profile", "p1", "r1"))
    /\ IsFile(fs, Manifest("system", "s1", "r1"))


---------------------------------------------------------------------------
(* Properties of the generated directories (specification Spec). *)

\* the directories of the web root the generators write per-object files
\* to: the install scripts, the images, the three kinds of metadata file,
\* and the outseg directories of retemplate_yum_repos
ArtifactDirs ==
    {"kickstarts", "kickstarts_sys", "images", "systems", "distros", "profiles",
     "repos_profile", "repos_system"}

\* C24: every directory of the web root that a generator writes per-object
\* files to is one whose contents CleanTree purges while keeping the
\* directory: if it was there before CleanTree it is there afterwards, and
\* it is empty.
C24_ArtifactDirsKept ==
    Cleaned =>
        \A x \in ArtifactDirs :
            IsDir(fs0, Join(webdir, x)) =>
                /\ IsDir(fs, Join(webdir, x))
                /\ Children(fs, Join(webdir, x)) = {}


---------------------------------------------------------------------------
(* Properties of the per-system files (specification Spec). *)

\* PerSystem is the phase that ran last
PerSystemDone == log # <<>> /\ Last(log) = "PerSystem"

SystemDistro(system) == DistroOf(objs, ProfileOf(objs, system))

\* the boot-config of the interface is there, as write_pxe_file renders it
\* from the blended mappings, exactly when the system boots from the network
BootConfigAsFlagged(system, name) ==
    LET distro == SystemDistro(system)
        f2 == BootConfigPath(system, distro, name)
    IN  IF system.netboot_enabled /\ is_pxe_supported(distro)
        THEN /\ IsFile(fs, f2)
             /\ fs[f2] = pxe_buffer([cache |-> blend_cache], TRUE, system,
                                    ProfileOf(objs, system), distro,
                                    distro.arch = "ia64")
        ELSE f2 \notin DOMAIN fs

\* C25: after PerSystem, for every system whose parents resolve and every
\* interface of it, the boot-config file named by the encoded address of the
\* interface exists with freshly rendered content if and only if the system
\* has network boot enabled and supports PXE, and does not exist otherwise;
\* the served metadata file of the system is written in either case.
C25_BootConfigPerInterface ==
    (PerSystemDone /\ AllResolve /\ env.templates) =>
        \A i \in DOMAIN objs.systems :
            /\ \A name \in DOMAIN objs.systems[i].interfaces :
                   BootConfigAsFlagged(objs.systems[i], name)
            /\ IsFile(fs, <<"web", "systems", objs.systems[i].name>>)


\* the three forms of the install-script directive
DirectiveForms == {"ks=", "autoyast=", "auto=true url="}

\* the form the breed of the distro asks for
DirectiveFor(breed) ==
    CASE breed = "suse" -> "autoyast="
      [] breed = "debian" -> "auto=true url="
      [] breed \in {"redhat", NoBreed} -> "ks="

Directives(text) == {k \in DOMAIN text : text[k] \in DirectiveForms}

\* the install-script reference write_pxe_file reads for the system
Reference(system) == blend_cache[BlendKey(TRUE, "profile", system.profile)].kickstart

\* the command line of one boot-config: one directive of the form of the
\* breed at its end when there is a reference, none when there is not
CommandLineOf(text, system, distro) ==
    /\ IF Reference(system) = "" THEN Directives(text) = {}
       ELSE /\ Directives(text) = {Len(text) - 1}
            /\ text[Len(text) - 1] = DirectiveFor(distro.breed)
            /\ text[Len(text)] \notin DirectiveForms \cup {""}
    /\ Count(text, "initrd=") = IF distro.arch = "ia64" THEN 0 ELSE 1

\* C27: when the blended install-script reference is not empty the kernel
\* command line ends with exactly one install-script directive, ks= for a
\* redhat or unset breed, autoyast= for suse, auto=true url= for debian;
\* when the reference is empty it has none; it names the initrd if and
\* only if the target is not ia64.
C27_CommandLine ==
    (PerSystemDone /\ AllResolve /\ err = NoErr) =>
        \A i \in DOMAIN objs.systems :
            LET system == objs.systems[i]
                distro == SystemDistro(system)
            IN  (system.netboot_enabled /\ distro.arch \in PxeArchs \cup {"ia64"}) =>
                    \A name \in DOMAIN system.interfaces :
                        CommandLineOf(fs[BootConfigPath(system, distro, name)],
                                      system, distro)

C27_Witness ==
    /\ PerSystemDone
    /\ err = NoErr
    /\ objs.systems = <<System1, SystemDefault>>
    /\ objs.distros[1].breed = "debian"
    /\ objs.distros[1].arch = "ia64"
    /\ "auto=true url=" \in Range(fs[BootConfigPath(System1, objs.distros[1], "intf0")])
    /\ "interface" \in Range(fs[BootConfigPath(System1, objs.distros[1], "intf0")])
    /\ Directives(fs[BootConfigPath(SystemDefault, objs.distros[1], "intf0")]) = {}

---------------------------------------------------------------------------
(* Properties of the DHCP switch and of the menu (specification Spec). *)

\* the files the DHCP phase writes
DhcpFiles == {dhcpd_conf, dnsmasq_conf, ethers, cobbler_hosts}

SameFile(f, g, p) == IF p \in DOMAIN f THEN p \in DOMAIN g /\ g[p] = f[p]
                     ELSE p \notin DOMAIN g

\* this run goes without DHCP management
DhcpOff == objs # NoObjs /\ ~objs.settings.manage_dhcp

\* C28: with manage_dhcp off a run writes none of the DHCP configuration
\* file, the MAC-to-IP table and the IP-to-hostname table: each is as the
\* run found it; BootMenu follows BuildTree at once and PostHook follows it.
C28_DhcpOff ==
    DhcpOff =>
        /\ \A p \in DhcpFiles : SameFile(fs0, fs, p)
        /\ pc # "DHCP"
        /\ "DHCP" \notin Range(log)
        /\ (log # <<>> /\ Last(log) = "PerSystem" /\ err = NoErr) => pc = "BootMenu"
        /\ (log # <<>> /\ Last(log) = "BootMenu" /\ err = NoErr) => pc = "PostHook"
        /\ pc = "done" =>
               /\ Len(log) >= 3
               /\ SubSeq(log, Len(log) - 2, Len(log)) = <<"PerSystem", "BootMenu", "PostHook">>

C28_Witness ==
    /\ DhcpOff
    /\ pc = "done"
    /\ objs.systems = <<System1, System2>>
    /\ {dhcpd_conf, ethers} \subseteq DOMAIN fs0 \cap DOMAIN fs
    /\ fs0[dhcpd_conf] = <<"dhcp", "old">>
    /\ fs[dhcpd_conf] = <<"dhcp", "old">>
    /\ fs[ethers] = <<"ethers", "old">>
    /\ cobbler_hosts \notin DOMAIN fs

\* the file of pxelinux.cfg both the menu and a system named default go to
DefaultFile == <<"tftp", "pxelinux.cfg", "default">>

HasDefault == find(objs.systems, "default") # <<>>

\* BootMenu with a system named default: nothing is rendered or written
MenuStepIdle ==
    (pc = "BootMenu" /\ HasDefault) =>
        /\ fs' = fs
        /\ blend_cache' = blend_cache
        /\ err' = NoErr
        /\ pc' = "PostHook"

\* after BootMenu the file is the boot-config of the system when there is a
\* system named default, and the menu when there is none
OneWriter ==
    (MenuDone /\ IsFile(fs, DefaultFile)) =>
        IF HasDefault
        THEN fs[DefaultFile] =
                 pxe_buffer([cache |-> blend_cache], TRUE, SystemDefault,
                            ProfileOf(objs, SystemDefault), SystemDistro(SystemDefault),
                            FALSE)
        ELSE Head(fs[DefaultFile]) = "menu"

\* C29: when a system named default exists BootMenu renders no entry and
\* writes no file, so pxelinux.cfg/default has one writer in a run: the
\* boot-config of that system is not overwritten by the menu.
C29_DefaultSystem == []OneWriter /\ [][MenuStepIdle]_vars

C29_Witness ==
    /\ MenuDone
    /\ HasDefault
    /\ objs.systems = <<System1, SystemDefault>>
    /\ IsFile(fs, DefaultFile)
    /\ fs[DefaultFile][2] = "pxesystem.template"

\* the tokens of a host block, and of an architecture-tagged line
HostBlockTokens == {"host", "hardware ethernet", "fixed-address", "filename"}

TaggedLineTokens == {"dhcp-host=net:ia64"}

\* C30: whatever manage_dhcp_mode holds, host-block records go with the
\* ISC template and output file and architecture-tagged lines with the
\* dnsmasq template and output file, never the other way round.
C30_ShapeMatchesManager ==
    DhcpDone =>
        /\ Head(DhcpFile) = "dhcp.template" <=>
               settings_file(objs.settings.manage_dhcp_mode) = dhcpd_conf
        /\ settings_file(objs.settings.manage_dhcp_mode) = dhcpd_conf =>
               Range(DhcpFile) \cap TaggedLineTokens = {}
        /\ settings_file(objs.settings.manage_dhcp_mode) = dnsmasq_conf =>
               Range(DhcpFile) \cap HostBlockTokens = {}

\* C31: write_all_system_files raises nothing for a system whose profile
\* and distro resolve, whatever the architecture tag of the distro and
\* whatever the network-boot flag: with every input of the run in place
\* PerSystem ends without an error and the run goes on.
C31_SystemFilesComplete ==
    (PerSystemDone /\ AllResolve /\ env = HealthyEnv) =>
        /\ err = NoErr
        /\ pc = NextPhase("PerSystem", objs.settings)

---------------------------------------------------------------------------
(* generate_kickstart_signal, called on its own (specification SignalSpec) *)

\* the spellings of pxe_just_once a settings file can hold
PxeJustOnceValues == {"0", "1", "True", "False", "yes", "no"}

\* the kickstart of the blended mapping: none, a local path, a URL
KickstartValues == {"", LocalKickstart, "http://srv/ks/remote.ks"}

\* one call: the object the signal is for, and what it returned
SignalCall(kind, name, kickstart) ==
    [kind |-> kind, name |-> name, kickstart |-> kickstart, buf |-> <<>>]

SignalInit ==
    /\ \E j \in PxeJustOnceValues, t \in BOOLEAN :
           store = [ObjectSet("x86", <<Profile1>>, <<System1>>, FALSE)
                       EXCEPT !.settings.pxe_just_once = j,
                              !.settings.run_post_install_trigger = t]
    /\ config = store
    /\ env \in {HealthyEnv, [HealthyEnv EXCEPT !.ks = "absent"]}
    /\ objs = store
    /\ fs = RenderTree
    /\ fs0 = fs
    /\ blend_cache = <<>>
    /\ snippet_cache = <<>>
    /\ pc = "signal"
    /\ log = <<>>
    /\ err = NoErr
    /\ runs = 1
    /\ captured = store
    /\ lastDone = NoRun
    /\ prevDone = NoRun
    /\ \E kickstart \in KickstartValues :
           tpl \in {SignalCall("profile", "p1", kickstart),
                    SignalCall("system", "s1", kickstart)}

\* buf is what generate_kickstart_signal returns
GenerateSignal ==
    /\ pc = "signal"
    /\ tpl' = [tpl EXCEPT !.buf = generate_kickstart_signal(env, objs.settings, tpl.kind,
                                                           tpl.name, tpl.kickstart)]
    /\ pc' = "returned"
    /\ UNCHANGED <<store, config, env, fs, objs, blend_cache, snippet_cache, log, err,
                   runs, fs0, captured, lastDone, prevDone>>

SignalNext == GenerateSignal

SignalSpec == SignalInit /\ [][SignalNext]_vars

\* the setting asks for the one-time network boot
JustOnce == objs.settings.pxe_just_once \in {"1", "True", "yes"}

\* the install script the blended mapping names is a file of this machine
ScriptLocal == kickstart_exists(env, tpl.kickstart)

IfSo(cond, request) == IF cond THEN request ELSE <<>>

\* C26: the done signal of a system is the status notification, then the
\* request that disables network boot iff pxe_just_once is affirmative, then
\* the audit fetch of the rendered script iff the blended install script
\* exists locally, then the post-install webhook iff
\* run_post_install_trigger is set; the signal of a profile is the status
\* notification and the audit fetch under the same condition, nothing else.
C26_DoneSignal ==
    pc = "returned" =>
        tpl.buf =
            IF tpl.kind = "system"
            THEN <<"done", "system", tpl.name>>
                 \o IfSo(JustOnce, <<"nopxe", tpl.name>>)
                 \o IfSo(ScriptLocal, <<"fetch", "system", tpl.name>>)
                 \o IfSo(objs.settings.run_post_install_trigger, <<"trigger", tpl.name>>)
            ELSE <<"done", "profile", tpl.name>>
                 \o IfSo(ScriptLocal, <<"fetch", "profile", tpl.name>>)

C26_Witness ==
    /\ pc = "returned"
    /\ tpl.kind = "system"
    /\ objs.settings.pxe_just_once = "yes"
    /\ objs.settings.run_post_install_trigger
    /\ tpl.buf = <<"done", "system", "s1", "nopxe", "s1", "fetch", "system", "s1",
                   "trigger", "s1">>


---------------------------------------------------------------------------
(* Properties of the host labels (specification Spec). *)

GenericLabels == {Generic(n) : n \in 1..6}

\* where the DHCP file opens the host block of an interface without a
\* hostname
GenericHosts ==
    {k \in DOMAIN DhcpFile :
        /\ k < Len(DhcpFile)
        /\ DhcpFile[k] = "host"
        /\ DhcpFile[k + 1] \in GenericLabels}

\* the interfaces that have a MAC and no hostname
Hostless ==
    {k \in DOMAIN AllIfaces(objs.systems) :
        /\ AllIfaces(objs.systems)[k].interface.mac_address # ""
        /\ AllIfaces(objs.systems)[k].interface.hostname = ""}

\* C33: in ISC mode the labels generic<n> of one DHCP render, one for every
\* interface that has a MAC and no hostname, are pairwise distinct across
\* all systems and interfaces.
C33_GenericLabelsDistinct ==
    (DhcpDone /\ lower(objs.settings.manage_dhcp_mode) = "isc") =>
        /\ Cardinality(GenericHosts) = Cardinality(Hostless)
        /\ \A a, b \in GenericHosts : a # b => DhcpFile[a + 1] # DhcpFile[b + 1]

C33_Witness ==
    /\ DhcpDone
    /\ objs.settings.manage_dhcp_mode = "isc"
    /\ objs.systems = <<System2, SystemDefault>>
    /\ Cardinality(GenericHosts) = 2
    /\ {DhcpFile[k + 1] : k \in GenericHosts} = {"generic1", "generic2"}

---------------------------------------------------------------------------
(* Properties of fragment names (specification RenderSpec). *)

\* C32: with the fragments net and network in the cache, the snippet pass
\* replaces every marker by the fragment of exactly its name, SNIPPET::network
\* by the text of network, in whatever order the cache yields its names.
C32_ExactFragmentName ==
    (Completed(2) /\ snippet_cache = PrefixSnippets) =>
        /\ Left(2) = expected_inlining(split(Given(2)), snippet_cache)
        /\ "work" \notin Range(Left(2))


=============================================================================
